---------------------------- MODULE Spec2Model ----------------------------
(***************************************************************************)
(* Document Intelligence Engine of TestBuddy (src/document_intelligence.py).*)
(*                                                                         *)
(* Conventions.                                                            *)
(*   - A Python tuple t is a TLA+ tuple; Python's t[k] is t[k+1] here.     *)
(*   - A text is a sequence of tokens.  Neighbouring tokens are separated  *)
(*     by one space; the token NL stands for a newline character.          *)
(*   - A float that the code computes as a quotient n/d of integers is the *)
(*     pair <<n, d>>; comparisons cross-multiply.                          *)
(*   - For re.search a text is spelled into characters; a run of letters   *)
(*     that no pattern can split is one character.                         *)
(*   - A local that is not yet bound is Unset; doc_type alone uses None.   *)
(***************************************************************************)
EXTENDS Integers, Sequences, FiniteSets, Bags, TLC

VARIABLES
    vision_available,   \* engine.vision_available (HAS_VISION)
    custom_patterns,    \* the entries of engine.field_patterns assigned after __init__
    file,               \* the file at file_path: what the imaging libraries make of it
    pc,                 \* position of the running call
    layout,             \* the DocumentLayout the call works on
    data,               \* the OCR words consumed so far by the loop (data[...][0..i-1])
    current_line_y,     \* _extract_layout locals
    current_line_text,
    current_line_words,
    current_line_bbox,
    finalized,          \* history: the TextLines built by _finalize_text_line, in call order
    raw_text,           \* process_document locals
    scores,             \* _classify_document_type local
    doc_type,
    type_confidence,
    extracted_fields,
    img,                \* _detect_tables locals
    lines,              \* (HoughLinesP returns None, never an empty array: None is <<>>)
    result,             \* the DocumentIntelligence returned
    json,               \* result.to_json(), a JSON document
    heap,               \* the word-list objects by address, where lists are told apart
    calls               \* the calls running on one shared engine, each with its own locals

vars == <<vision_available, custom_patterns, file, pc, layout, data, current_line_y,
          current_line_text, current_line_words, current_line_bbox, finalized, raw_text, scores,
          doc_type, type_confidence, extracted_fields, img, lines, result, json, heap,
          calls>>

\* what no step of a single call assigns: the engine's flag and catalog, the file, the
\* other calls
envVars == <<vision_available, custom_patterns, file, calls>>

\* the locals of _extract_layout
loopVars == <<data, current_line_y, current_line_text, current_line_words,
              current_line_bbox, finalized>>

\* the classifier's input and output
classVars == <<raw_text, scores, doc_type, type_confidence>>

\* the locals of _detect_tables
tableVars == <<img, lines>>

\* a name (a string) not yet assigned
None == "None"

\* a tuple, list or object not yet assigned
Unset == <<>>

-----------------------------------------------------------------------------
(* Bounds and input domains *)

MaxWords == 3
MaxDirect == 3
MaxTextLen == 2
MaxSegs == 6
MaxFieldLen == 2

\* top-coordinates of OCR words
Tops == {0, 10, 20, 21, 31}
\* (left, width) of OCR words; width 0 included
Spans == {<<0, 3>>, <<2, 0>>, <<2, 3>>}
\* img.size values: (width, height)
ImageSizes == {<<40, 30>>, <<40, 31>>}
\* page_height values a caller constructs a DocumentLayout with
PageHeights == {0, 30, 31}

\* what the libraries make of the file: opens = Image.open(file_path) returns an image,
\* reads = cv2.imread(file_path) returns an array (a missing or unreadable file: neither)
Files == [opens : BOOLEAN, reads : BOOLEAN]

\* one entry of pytesseract's data dict: text/top/left/width/height/conf at index i
OcrWords ==
    { [text |-> "a", top |-> t, left |-> s[1], width |-> s[2], height |-> 1, conf |-> 90] :
        t \in Tops, s \in Spans }
    \cup { [text |-> " ", top |-> 31, left |-> 0, width |-> 0, height |-> 0, conf |-> -1] }

-----------------------------------------------------------------------------
(* Helpers *)

Min(a, b) == IF a <= b THEN a ELSE b

Max(a, b) == IF a >= b THEN a ELSE b

Abs(a) == IF a < 0 THEN -a ELSE a

RECURSIVE SumConf(_)
SumConf(ws) == IF ws = <<>> THEN 0 ELSE Head(ws).confidence[1] + SumConf(Tail(ws))

Strip_Identity(word) == word

\* str.strip() on a token: whitespace-only tokens become the empty string
Strip(word) == IF word \in {"", " "} THEN "" ELSE word

-----------------------------------------------------------------------------
(* Data classes *)

\* Word(text, confidence, bbox): confidence = float(conf) / 100.0
Word(text, conf, bbox) ==
    [text |-> text, confidence |-> <<conf, 100>>, bbox |-> bbox, position |-> "unknown"]

\* DocumentLayout()
DocumentLayout ==
    [header |-> <<>>, body |-> <<>>, footer |-> <<>>, tables |-> <<>>,
     page_width |-> 0, page_height |-> 0]

\* TextLine(text, words, confidence = mean of the words' confidences, bbox)
TextLine(text, words, bbox) ==
    [text |-> text,
     words |-> words,
     confidence |-> IF words # <<>> THEN <<SumConf(words), 100 * Len(words)>> ELSE <<0, 1>>,
     bbox |-> bbox]

-----------------------------------------------------------------------------
(* _finalize_text_line *)

FinalizeTextLine_TwoIfs(lay, text, words, bbox) ==
    LET line == TextLine(text, words, bbox)
        lay1 == IF 3 * bbox[2] < lay.page_height
                THEN [lay EXCEPT !.header = Append(@, line)] ELSE lay
    IN  IF 3 * bbox[2] > 2 * lay.page_height
        THEN [lay1 EXCEPT !.footer = Append(@, line)]
        ELSE [lay1 EXCEPT !.body = Append(@, line)]

FinalizeTextLine_Leq(lay, text, words, bbox) ==
    LET line == TextLine(text, words, bbox)
    IN  IF 3 * bbox[2] <= lay.page_height
        THEN [lay EXCEPT !.header = Append(@, line)]
        ELSE IF 3 * bbox[2] >= 2 * lay.page_height
             THEN [lay EXCEPT !.footer = Append(@, line)]
             ELSE [lay EXCEPT !.body = Append(@, line)]

\* top_third = page_height / 3, bottom_third = page_height * 2 / 3;
\* bbox[1] < top_third -> header, bbox[1] > bottom_third -> footer, else body
FinalizeTextLine(lay, text, words, bbox) ==
    LET line == TextLine(text, words, bbox)
    IN  IF 3 * bbox[2] < lay.page_height
        THEN [lay EXCEPT !.header = Append(@, line)]
        ELSE IF 3 * bbox[2] > 2 * lay.page_height
             THEN [lay EXCEPT !.footer = Append(@, line)]
             ELSE [lay EXCEPT !.body = Append(@, line)]

-----------------------------------------------------------------------------
(* _extract_layout: the line-grouping loop as a function of its locals *)

\* the locals before the loop (lines 283-286)
LoopInit(lay) ==
    [layout |-> lay, y |-> -1, text |-> <<>>, words |-> <<>>, bbox |-> <<0, 0, 0, 0>>,
     lines |-> <<>>]

IsNewLine_Geq(st, w) == Abs(w.top - st.y) >= 10 /\ st.text # <<>>

\* "if abs(y - current_line_y) > 10 and current_line_text"
IsNewLine(st, w) == Abs(w.top - st.y) > 10 /\ st.text # <<>>

\* lines 310-319: the running bounding box
UpdateBBox(bbox, x, y, w, h) ==
    IF bbox[3] = 0
    THEN <<x, y, w, h>>
    ELSE <<Min(bbox[1], x), Min(bbox[2], y), Max(bbox[3], x + w), Max(bbox[4], y + h)>>

\* one iteration of the for loop (lines 288-319) on the OCR entry w
LoopStep(st, w) ==
    IF Strip(w.text) = ""
    THEN st
    ELSE LET brk == IsNewLine(st, w)
             s1 == IF brk
                   THEN [st EXCEPT
                           !.layout = FinalizeTextLine(st.layout, st.text, st.words, st.bbox),
                           !.lines = Append(@, TextLine(st.text, st.words, st.bbox)),
                           !.text = <<>>,
                           !.words = <<>>,
                           !.y = w.top]
                   ELSE st
         IN  [s1 EXCEPT
                !.y = w.top,
                !.text = Append(@, w.text),
                !.words = Append(@, Word(w.text, w.conf, <<w.left, w.top, w.width, w.height>>)),
                !.bbox = UpdateBBox(@, w.left, w.top, w.width, w.height)]

LoopEnd_NoFlush(st) == st

\* lines 321-323: finalize the last line
LoopEnd(st) ==
    IF st.text # <<>>
    THEN [st EXCEPT
            !.layout = FinalizeTextLine(st.layout, st.text, st.words, st.bbox),
            !.lines = Append(@, TextLine(st.text, st.words, st.bbox))]
    ELSE st

\* the locals of the running loop, as one record
Locals ==
    [layout |-> layout, y |-> current_line_y, text |-> current_line_text,
     words |-> current_line_words, bbox |-> current_line_bbox, lines |-> finalized]

SetLocals(st) ==
    /\ layout' = st.layout
    /\ current_line_y' = st.y
    /\ current_line_text' = st.text
    /\ current_line_words' = st.words
    /\ current_line_bbox' = st.bbox
    /\ finalized' = st.lines

-----------------------------------------------------------------------------
(* Texts and regular expressions *)

\* the newline character, as a token
NL == "\n"

\* the words a text is made of
Vocabulary ==
    {"invoice", "INVOICE", "date", "amount", "due", "bill", "to", "from", "total",
     "whereas", "dear", "thank", "you", "x", NL}

LowerToken_Identity(tok) == tok

\* str.lower() on a token
LowerToken(tok) ==
    CASE tok = "INVOICE" -> "invoice"
      [] tok = "INV-1" -> "inv-1"
      [] OTHER -> tok

\* str.lower() on a text
Lower(t) == [ k \in 1..Len(t) |-> LowerToken(t[k]) ]

\* A regular expression of the catalogs is a set of alternatives (the "|" of the
\* pattern).  An alternative is one of
\*   Lits(<<a, b, ...>>)  the literals a, b, ... joined by \s*     a\s*b...
\*   Line(a, b)          a, then anything but a newline, then b   a.*b
\*   Ws(a)               a followed by at least one whitespace    a\s+
\* An optional tail "(?:...)?" matches the empty string and is left out.
Lits(parts) == [kind |-> "seq", parts |-> parts]

Line(a, b) == [kind |-> "line", parts |-> <<a, b>>]

Ws(a) == [kind |-> "ws", parts |-> <<a>>]

\* re.search looks for substrings, so a literal may match only a part of a token.
\* Of the Vocabulary, lowercased, the one token that contains a literal of the catalogs
\* without being equal to it is "total", which starts with "to".
StartsWith(tok, lit) == LowerToken(tok) = lit \/ (LowerToken(tok) = "total" /\ lit = "to")

EndsWith(tok, lit) == LowerToken(tok) = lit

Contains(tok, lit) == StartsWith(tok, lit) \/ EndsWith(tok, lit)

\* parts[p..] joined by \s* match t from token i on (re.IGNORECASE: case is ignored);
\* the last literal may be the start of its token
RECURSIVE MatchSeqAt(_, _, _, _)
MatchSeqAt(parts, p, t, i) ==
    IF p > Len(parts) THEN TRUE
    ELSE IF i > Len(t) THEN FALSE
    ELSE IF p = Len(parts) /\ StartsWith(t[i], parts[p]) THEN TRUE
    ELSE IF p < Len(parts) /\ LowerToken(t[i]) = parts[p]
         THEN MatchSeqAt(parts, p + 1, t, i + 1)
    ELSE IF t[i] = NL THEN MatchSeqAt(parts, p, t, i + 1)
    ELSE FALSE

\* re.search(alternative, t)
SearchAlt(alt, t) ==
    CASE alt.kind = "seq" ->
            IF Len(alt.parts) = 1
            THEN \E i \in 1..Len(t) : Contains(t[i], alt.parts[1])
            ELSE \E i \in 1..Len(t) :
                    /\ EndsWith(t[i], alt.parts[1])
                    /\ MatchSeqAt(alt.parts, 2, t, i + 1)
      [] alt.kind = "line" ->
            \E i, j \in 1..Len(t) :
                /\ i < j
                /\ Contains(t[i], alt.parts[1])
                /\ Contains(t[j], alt.parts[2])
                /\ \A k \in (i + 1)..(j - 1) : t[k] # NL
      [] alt.kind = "ws" ->
            \E i \in 1..(Len(t) - 1) : EndsWith(t[i], alt.parts[1])

\* re.search(pattern, t, re.IGNORECASE) is not None
Search(pattern, t) == \E alt \in pattern : SearchAlt(alt, t)

-----------------------------------------------------------------------------
(* Document types and the classifier *)

\* DocumentType (the enum's values)
DocumentType == {"invoice", "receipt", "contract", "form", "letter", "report", "unknown"}

\* self.doc_type_patterns, in the dict's insertion order
DocTypePatterns ==
    << [type |-> "invoice", patterns |-> <<
            {Lits(<<"invoice">>)},
            {Lits(<<"amount", "due">>)},
            {Lits(<<"invoice", "date">>)},
            {Lits(<<"bill", "to">>)},
            {Lits(<<"from">>), Lits(<<"seller">>)} >>],
       [type |-> "receipt", patterns |-> <<
            {Lits(<<"receipt">>)},
            {Lits(<<"total">>), Line("amount", "paid")},
            {Lits(<<"transaction", "id">>), Lits(<<"transaction", "number">>)},
            {Line("item", "qty"), Line("item", "quantity"), Line("item", "price")},
            {Line("thank", "you")} >>],
       [type |-> "contract", patterns |-> <<
            {Lits(<<"agreement">>), Lits(<<"contract">>)},
            {Lits(<<"party">>), Lits(<<"parties">>)},
            {Lits(<<"whereas">>)},
            {Lits(<<"hereinafter">>)},
            {Lits(<<"signature">>), Lits(<<"signed">>)},
            {Lits(<<"effective", "date">>)} >>],
       [type |-> "form", patterns |-> <<
            {Lits(<<"form">>)},
            {Line("please", "complete"), Line("please", "fill")},
            {Line("required", "field"), Line("field", "required")},
            {Line("[", "]"), Lits(<<"__">>)},
            {Lits(<<"signature", "line">>), Lits(<<"signature", "here">>)} >>],
       [type |-> "letter", patterns |-> <<
            {Ws("dear"), Ws("to")},
            {Lits(<<"sincerely">>), Lits(<<"regards">>), Lits(<<"respectfully">>)},
            {Lits(<<"mr.">>), Lits(<<"ms.">>), Lits(<<"dr.">>)},
            {Lits(<<"address:">>), Lits(<<"date:">>)} >>],
       [type |-> "report", patterns |-> <<
            {Lits(<<"report">>)},
            {Lits(<<"annual">>), Lits(<<"quarterly">>), Lits(<<"monthly">>),
             Lits(<<"executive", "summary">>)},
            {Lits(<<"table", "of", "contents">>)},
            {Lits(<<"findings">>), Lits(<<"conclusions">>)},
            {Lits(<<"prepared", "by">>), Lits(<<"date">>)} >>] >>

\* a < b for quotients a = <<n, d>>, b = <<m, e>> with d, e > 0
QLess(a, b) == a[1] * b[2] < b[1] * a[2]

\* the literal 0.2
Threshold == <<1, 5>>

MatchCount_Occurrences(patterns, t) ==
    Cardinality({ <<k, i>> \in (1..Len(patterns)) \X (1..Len(t)) :
                    Search(patterns[k], SubSeq(t, i, Len(t)))
                    /\ ~Search(patterns[k], SubSeq(t, i + 1, Len(t))) })
    + Cardinality({ <<k, i>> \in (1..Len(patterns)) \X (1..Len(t)) :
                    Search(patterns[k], <<t[i]>>) /\ Search(patterns[k], SubSeq(t, i + 1, Len(t))) })

\* sum(1 for pattern in patterns if re.search(pattern, text_lower, re.IGNORECASE))
MatchCount(patterns, t) == Cardinality({ k \in 1..Len(patterns) : Search(patterns[k], t) })

\* scores[doc_type] = matches / len(patterns), by catalog position
Scores(t) ==
    [ k \in 1..Len(DocTypePatterns) |->
        <<MatchCount(DocTypePatterns[k].patterns, t), Len(DocTypePatterns[k].patterns)>> ]

BestIndex_Last(sc) ==
    CHOOSE k \in DOMAIN sc :
        /\ \A j \in DOMAIN sc : ~QLess(sc[k], sc[j])
        /\ \A j \in DOMAIN sc : j > k => QLess(sc[j], sc[k])

\* max(scores, key=scores.get): the first key, in insertion order, of maximal score
BestIndex(sc) ==
    CHOOSE k \in DOMAIN sc :
        /\ \A j \in DOMAIN sc : ~QLess(sc[k], sc[j])
        /\ \A j \in DOMAIN sc : j < k => QLess(sc[j], sc[k])

ClassifyResult_Leq(sc) ==
    LET best == BestIndex(sc)
        confidence == sc[best]
    IN  IF ~QLess(Threshold, confidence)
        THEN <<"unknown", confidence>>
        ELSE <<DocTypePatterns[best].type, confidence>>

ClassifyResult_NoThreshold(sc) ==
    LET best == BestIndex(sc)
    IN  <<DocTypePatterns[best].type, sc[best]>>

ClassifyResult_ReturnsNone(sc) ==
    LET best == BestIndex(sc)
        confidence == sc[best]
    IN  IF QLess(confidence, Threshold)
        THEN <<"None", confidence>>
        ELSE <<DocTypePatterns[best].type, confidence>>

\* lines 366-373: best_type, confidence and the value returned, from the scores
ClassifyResult(sc) ==
    LET best == BestIndex(sc)
        confidence == sc[best]
    IN  IF QLess(confidence, Threshold)
        THEN <<"unknown", confidence>>
        ELSE <<DocTypePatterns[best].type, confidence>>

\* _classify_document_type(text) -> (doc_type, confidence)
ClassifyDocumentType(t) == ClassifyResult(Scores(Lower(t)))

-----------------------------------------------------------------------------
(* The characters of a text, and Python's re on them *)

\* A token is spelled as a sequence of atoms.  An atom is one character (" ", NL, ":",
\* "1", "x", ...) or a run of two or more letters that no literal of field_patterns
\* cuts into ("to", "tal", "invoice", ...).
Spelling(tok) ==
    CASE tok = "total" -> <<"to", "tal">>
      [] tok = "inv-1" -> <<"inv", "-", "1">>
      [] tok = "INV-1" -> <<"INV", "-", "1">>
      [] tok = "1/1" -> <<"1", "/", "1">>
      [] tok = "11111" -> <<"1", "1", "1", "1", "1">>
      [] tok = "x@x.io" -> <<"x", "@", "x", ".", "io">>
      [] OTHER -> <<tok>>

\* the characters of a text: the tokens' spellings, one space between two tokens that
\* are not a newline ('"\n".join' of the lines, '" "' between the words of a line)
RECURSIVE Chars(_)
Chars(t) ==
    IF t = <<>> THEN <<>>
    ELSE IF Len(t) = 1 THEN Spelling(t[1])
    ELSE Spelling(t[1])
         \o (IF t[1] = NL \/ t[2] = NL THEN <<>> ELSE <<" ">>)
         \o Chars(Tail(t))

\* the lowercase form of an atom: what re.IGNORECASE compares
LowerAtom(a) ==
    CASE a = "INV" -> "inv"
      [] a = "INVOICE" -> "invoice"
      [] OTHER -> a

\* character classes, as sets of atoms
Whitespace == {" ", NL}

Digits == {"1"}

Letters ==
    {"invoice", "date", "amount", "due", "bill", "to", "tal", "from", "whereas", "dear",
     "thank", "you", "x", "inv", "io", "zip", "phone", "address", "number", "no",
     "payment", "ship", "company", "seller", "tel", "ephone", "street", "postal", "code"}

\* the atoms of two or more characters
IsLong(atom) == atom \in Letters \ {"x"}

\* str.strip() on a sequence of characters
RECURSIVE StripText(_)
StripText(cs) ==
    IF cs = <<>> THEN <<>>
    ELSE IF Head(cs) \in Whitespace THEN StripText(Tail(cs))
    ELSE IF cs[Len(cs)] \in Whitespace THEN StripText(SubSeq(cs, 1, Len(cs) - 1))
    ELSE cs

\* regular expressions, as syntax trees
RLit(a) == [k |-> "lit", a |-> a]

RSet(s) == [k |-> "set", s |-> s]

RNot(s) == [k |-> "not", s |-> s]

RCat(rs) == [k |-> "cat", rs |-> rs]

RAlt(rs) == [k |-> "alt", rs |-> rs]

ROpt(r) == [k |-> "opt", r |-> r]

RStar(r) == [k |-> "star", r |-> r]

RPlus(r) == RCat(<<r, RStar(r)>>)

RGroup(r) == [k |-> "group", r |-> r]

\* "[...]{2,}" for a class of letters
RMin2(s) == [k |-> "min2", s |-> s]

\* Match(re, cs, i, cap): the ways re matches cs from position i on, in the order the
\* backtracking matcher tries them (greedy first); each is the position after the
\* match and the span of the capturing group seen so far (<<0, 0>>: none)
RECURSIVE Match(_, _, _, _)
RECURSIVE MatchCat(_, _, _, _, _)
RECURSIVE ThenCat(_, _, _, _)
RECURSIVE MatchAlt(_, _, _, _, _)
RECURSIVE MatchStar(_, _, _, _)
RECURSIVE ThenStar(_, _, _)

Match(re, cs, i, cap) ==
    CASE re.k = "lit" ->
            IF /\ i + Len(re.a) - 1 <= Len(cs)
               /\ [ n \in 1..Len(re.a) |-> LowerAtom(cs[i + n - 1]) ] = re.a
            THEN <<[e |-> i + Len(re.a), cap |-> cap]>> ELSE <<>>
      [] re.k = "set" ->
            IF i <= Len(cs) /\ LowerAtom(cs[i]) \in re.s
            THEN <<[e |-> i + 1, cap |-> cap]>> ELSE <<>>
      [] re.k = "not" ->
            IF i <= Len(cs) /\ LowerAtom(cs[i]) \notin re.s
            THEN <<[e |-> i + 1, cap |-> cap]>> ELSE <<>>
      [] re.k = "cat" -> MatchCat(re.rs, 1, cs, i, cap)
      [] re.k = "alt" -> MatchAlt(re.rs, 1, cs, i, cap)
      [] re.k = "opt" -> Match(re.r, cs, i, cap) \o <<[e |-> i, cap |-> cap]>>
      [] re.k = "star" -> MatchStar(re.r, cs, i, cap)
      [] re.k = "group" ->
            LET res == Match(re.r, cs, i, cap)
            IN  [ n \in 1..Len(res) |-> [e |-> res[n].e, cap |-> <<i, res[n].e>>] ]
      [] re.k = "min2" ->
            LET res == Match(RPlus(RSet(re.s)), cs, i, cap)
                Enough(x) == x.e - i >= 2 \/ \E n \in i..(x.e - 1) : IsLong(LowerAtom(cs[n]))
            IN  SelectSeq(res, Enough)

MatchCat(rs, n, cs, i, cap) ==
    IF n > Len(rs) THEN <<[e |-> i, cap |-> cap]>>
    ELSE ThenCat(Match(rs[n], cs, i, cap), rs, n + 1, cs)

ThenCat(res, rs, n, cs) ==
    IF res = <<>> THEN <<>>
    ELSE MatchCat(rs, n, cs, Head(res).e, Head(res).cap) \o ThenCat(Tail(res), rs, n, cs)

MatchAlt(rs, n, cs, i, cap) ==
    IF n > Len(rs) THEN <<>>
    ELSE Match(rs[n], cs, i, cap) \o MatchAlt(rs, n + 1, cs, i, cap)

MatchStar(r, cs, i, cap) ==
    LET Advances(x) == x.e > i
    IN  ThenStar(SelectSeq(Match(r, cs, i, cap), Advances), r, cs) \o <<[e |-> i, cap |-> cap]>>

ThenStar(res, r, cs) ==
    IF res = <<>> THEN <<>>
    ELSE MatchStar(r, cs, Head(res).e, Head(res).cap) \o ThenStar(Tail(res), r, cs)

\* match.groups() is not empty
RECURSIVE HasGroup(_)
HasGroup(re) ==
    CASE re.k = "group" -> TRUE
      [] re.k \in {"cat", "alt"} -> \E n \in 1..Len(re.rs) : HasGroup(re.rs[n])
      [] re.k \in {"opt", "star"} -> HasGroup(re.r)
      [] OTHER -> FALSE

\* re.search(re, cs): the leftmost start with a match and the first match there;
\* start = 0 stands for None
ReSearch(re, cs) ==
    LET starts == { i \in 1..(Len(cs) + 1) : Match(re, cs, i, <<0, 0>>) # <<>> }
    IN  IF starts = {} THEN [start |-> 0, e |-> 0, cap |-> <<0, 0>>]
        ELSE LET i == CHOOSE m \in starts : \A n \in starts : m <= n
                 first == Head(Match(re, cs, i, <<0, 0>>))
             IN  [start |-> i, e |-> first.e, cap |-> first.cap]

-----------------------------------------------------------------------------
(* Key fields *)

\* "\s*"
Ws0 == RStar(RSet(Whitespace))

\* "[:=]?"
Sep == ROpt(RSet({":", "="}))

\* "\d"
Digit == RSet(Digits)

\* self.field_patterns (re.IGNORECASE: a class of letters holds both cases)
FieldPatterns ==
    [invoice_number |->
        RCat(<<RLit(<<"invoice">>), Ws0,
               ROpt(RAlt(<<RLit(<<"number">>),
                           RCat(<<RLit(<<"no">>), ROpt(RLit(<<".">>))>>),
                           RLit(<<"#">>)>>)),
               Ws0, Sep, Ws0,
               RGroup(RPlus(RSet(Letters \cup Digits \cup {"-"})))>>),
     invoice_date |->
        RCat(<<RLit(<<"invoice">>), Ws0, RLit(<<"date">>), Ws0, Sep, Ws0,
               RGroup(RPlus(RSet(Digits \cup {"/", "-", "."})))>>),
     due_date |->
        RCat(<<RAlt(<<RLit(<<"due">>), RLit(<<"payment">>)>>), Ws0, RLit(<<"date">>),
               Ws0, Sep, Ws0,
               RGroup(RPlus(RSet(Digits \cup {"/", "-", "."})))>>),
     total_amount |->
        RCat(<<RAlt(<<RLit(<<"to", "tal">>),
                      RCat(<<RLit(<<"amount">>), Ws0, RLit(<<"due">>)>>)>>),
               Ws0, Sep, Ws0, RStar(RNot(Digits)),
               RGroup(RCat(<<RPlus(Digit),
                             RStar(RCat(<<RSet({".", ","}), RPlus(Digit)>>)),
                             ROpt(RCat(<<RSet({".", ","}), Digit, Digit>>))>>))>>),
     recipient |->
        RCat(<<RAlt(<<RLit(<<"to">>),
                      RCat(<<RLit(<<"bill">>), Ws0, RLit(<<"to">>)>>),
                      RCat(<<RLit(<<"ship">>), Ws0, RLit(<<"to">>)>>)>>),
               Ws0, Sep, Ws0,
               RGroup(RPlus(RSet(Letters \cup Whitespace)))>>),
     sender |->
        RCat(<<RAlt(<<RLit(<<"from">>), RLit(<<"company">>), RLit(<<"seller">>)>>),
               Ws0, Sep, Ws0,
               RGroup(RPlus(RSet(Letters \cup Whitespace)))>>),
     phone |->
        RCat(<<RAlt(<<RLit(<<"phone">>), RLit(<<"tel">>)>>), ROpt(RLit(<<"ephone">>)),
               Ws0, Sep, Ws0,
               RGroup(RPlus(RSet(Digits \cup {"-", "(", ")"})))>>),
     email |->
        RGroup(RCat(<<RPlus(RSet(Letters \cup Digits \cup {".", "_", "%", "+", "-"})),
                      RLit(<<"@">>),
                      RPlus(RSet(Letters \cup Digits \cup {".", "-"})),
                      RLit(<<".">>),
                      RMin2(Letters \cup {"|"})>>)),
     address |->
        RCat(<<RAlt(<<RLit(<<"address">>), RLit(<<"street">>)>>), Ws0, Sep, Ws0,
               RGroup(RPlus(RSet(Digits \cup Whitespace \cup Letters
                                 \cup {"_", ".", ",", "#"})))>>),
     zip_code |->
        RCat(<<RAlt(<<RLit(<<"zip">>), RLit(<<"postal">>)>>), Ws0, ROpt(RLit(<<"code">>)),
               Ws0, Sep, Ws0,
               RGroup(RCat(<<Digit, Digit, Digit, Digit, Digit,
                             ROpt(RCat(<<ROpt(RSet({"-"})), Digit, Digit, Digit,
                                         Digit>>))>>))>>)]

\* the keys of self.field_patterns
FieldNames == DOMAIN FieldPatterns

ExtractedField_DefaultSource(name, value, confidence, source) ==
    [name |-> name, value |-> value, confidence |-> confidence, source |-> "unknown"]

\* ExtractedField(name, value, confidence, source)
ExtractedField(name, value, confidence, source) ==
    [name |-> name, value |-> value, confidence |-> confidence, source |-> source]

\* "match.group(1) if match.groups() else match.group(0)", as characters of cs
MatchValue(re, cs) ==
    LET match == ReSearch(re, cs)
    IN  IF HasGroup(re)
        THEN SubSeq(cs, match.cap[1], match.cap[2] - 1)
        ELSE SubSeq(cs, match.start, match.e - 1)

\* _extract_key_fields(text, layout) -> fields, a dict: a function on the keys present
ExtractKeyFields(text) ==
    LET text_lower == Chars(Lower(text))
        matched == { f \in FieldNames : ReSearch(FieldPatterns[f], text_lower).start # 0 }
    IN  [ f \in matched |->
            ExtractedField(f, StripText(MatchValue(FieldPatterns[f], text_lower)),
                           <<85, 100>>, "regex") ]

-----------------------------------------------------------------------------
(* Actions of layout extraction *)

\* a caller builds DocumentLayout(page_height = H) and an engine
InitLayout ==
    /\ vision_available \in BOOLEAN
    /\ file \in Files
    /\ pc = "start"
    /\ layout \in { [DocumentLayout EXCEPT !.page_height = H] : H \in PageHeights }
    /\ data = <<>>
    /\ current_line_y = -1
    /\ current_line_text = <<>>
    /\ current_line_words = <<>>
    /\ current_line_bbox = <<0, 0, 0, 0>>
    /\ finalized = <<>>
    /\ raw_text = <<>>
    /\ scores = Unset
    /\ doc_type = None
    /\ type_confidence = Unset
    /\ extracted_fields = <<>>
    /\ img = Unset
    /\ lines = <<>>
    /\ result = Unset
    /\ json = Unset
    /\ heap = <<>>
    /\ custom_patterns = <<>>
    /\ calls = <<>>

\* lines 270-272: no vision libraries, the empty layout is returned
ExtractLayoutNoVision ==
    /\ pc = "start"
    /\ ~vision_available
    /\ layout' = DocumentLayout
    /\ pc' = "returned"
    /\ UNCHANGED <<envVars, heap, extracted_fields, json, loopVars, classVars, tableVars, result>>

ExtractLayoutOpenError_KeepsPageSize ==
    /\ pc = "start"
    /\ vision_available
    /\ ~file.opens
    /\ layout' = [DocumentLayout EXCEPT !.page_width = 40, !.page_height = 30]
    /\ pc' = "returned"
    /\ UNCHANGED <<envVars, heap, extracted_fields, json, loopVars, classVars, tableVars, result>>

\* lines 276, 327-330: Image.open raises, the empty layout is returned
ExtractLayoutOpenError ==
    /\ pc = "start"
    /\ vision_available
    /\ ~file.opens
    /\ layout' = DocumentLayout
    /\ pc' = "returned"
    /\ UNCHANGED <<envVars, heap, extracted_fields, json, loopVars, classVars, tableVars, result>>

\* lines 268-286: image opened, page size set, OCR run, locals initialised
ExtractLayoutBegin(size) ==
    /\ pc = "start"
    /\ vision_available
    /\ file.opens
    /\ SetLocals(LoopInit([DocumentLayout EXCEPT !.page_width = size[1],
                                                 !.page_height = size[2]]))
    /\ data' = <<>>
    /\ pc' = "loop"
    /\ UNCHANGED <<envVars, heap, extracted_fields, json, classVars, tableVars, result>>

\* lines 288-290: a blank word is skipped
LoopSkipBlank(w) ==
    /\ pc = "loop"
    /\ Len(data) < MaxWords
    /\ Strip(w.text) = ""
    /\ SetLocals(LoopStep(Locals, w))
    /\ data' = Append(data, w)
    /\ UNCHANGED <<envVars, heap, extracted_fields, json, pc, classVars, tableVars, result>>

\* lines 288-319: a word joins the current line
LoopAddWord(w) ==
    /\ pc = "loop"
    /\ Len(data) < MaxWords
    /\ Strip(w.text) # ""
    /\ ~IsNewLine(Locals, w)
    /\ SetLocals(LoopStep(Locals, w))
    /\ data' = Append(data, w)
    /\ UNCHANGED <<envVars, heap, extracted_fields, json, pc, classVars, tableVars, result>>

\* lines 288-319: a word ends the current line and starts the next
LoopBreakLine(w) ==
    /\ pc = "loop"
    /\ Len(data) < MaxWords
    /\ Strip(w.text) # ""
    /\ IsNewLine(Locals, w)
    /\ SetLocals(LoopStep(Locals, w))
    /\ data' = Append(data, w)
    /\ UNCHANGED <<envVars, heap, extracted_fields, json, pc, classVars, tableVars, result>>

\* lines 321-330: the stream ends, the last line is finalized, the layout returned
ExtractLayoutEnd ==
    /\ pc = "loop"
    /\ SetLocals(LoopEnd(Locals))
    /\ pc' = "returned"
    /\ UNCHANGED <<envVars, heap, extracted_fields, json, data, classVars, tableVars, result>>

\* a direct call _finalize_text_line(layout, text, [Word], bbox) on the caller's layout
FinalizeCall(top) ==
    /\ pc \in {"start", "direct"}
    /\ Len(finalized) < MaxDirect
    /\ LET bbox == <<0, top, 3, 1>>
           words == <<Word("a", 90, bbox)>>
       IN  /\ layout' = FinalizeTextLine(layout, <<"a">>, words, bbox)
           /\ finalized' = Append(finalized, TextLine(<<"a">>, words, bbox))
    /\ pc' = "direct"
    /\ UNCHANGED <<envVars, heap, extracted_fields, json, data, current_line_y, current_line_text,
                   current_line_words, current_line_bbox, classVars, tableVars, result>>

NextLayout ==
    \/ ExtractLayoutNoVision
    \/ ExtractLayoutOpenError
    \/ \E size \in ImageSizes : ExtractLayoutBegin(size)
    \/ \E w \in OcrWords : LoopSkipBlank(w)
    \/ \E w \in OcrWords : LoopAddWord(w)
    \/ \E w \in OcrWords : LoopBreakLine(w)
    \/ ExtractLayoutEnd
    \/ \E top \in Tops : FinalizeCall(top)

SpecLayout == InitLayout /\ [][NextLayout]_vars

-----------------------------------------------------------------------------
(* Result assembly *)

\* DocumentIntelligence(doc_type, type_confidence, layout, extracted_fields, raw_text,
\* metadata), lines 249-261; file_path and the clock readings (processing_time,
\* timestamp) are left out
DocumentIntelligence(dt, conf, lay, fields, text, vision) ==
    [doc_type |-> dt, type_confidence |-> conf, layout |-> lay, extracted_fields |-> fields,
     raw_text |-> text, metadata |-> [vision_available |-> vision]]

\* lines 249-264: the result is built from process_document's locals and returned
AssembleResult ==
    /\ pc = "detected"
    /\ result' = DocumentIntelligence(doc_type, type_confidence, layout, extracted_fields,
                                      raw_text, vision_available)
    /\ pc' = "done"
    /\ UNCHANGED <<envVars, heap, extracted_fields, json, layout, loopVars, classVars, tableVars>>

-----------------------------------------------------------------------------
(* Serialization: to_dict, to_json and json.loads *)

\* DocumentType.value of a member: the lowercase name (members are identified by it)
EnumValue(dt) == dt

\* Word.to_dict / TextLine.to_dict / Table.to_dict / DocumentLayout.to_dict
LineToDict(line) ==
    [text |-> line.text, confidence |-> line.confidence, bbox |-> line.bbox,
     words |-> line.words]

LayoutToDict(lay) ==
    [header |-> [ n \in 1..Len(lay.header) |-> LineToDict(lay.header[n]) ],
     body |-> [ n \in 1..Len(lay.body) |-> LineToDict(lay.body[n]) ],
     footer |-> [ n \in 1..Len(lay.footer) |-> LineToDict(lay.footer[n]) ],
     tables |-> lay.tables,
     page_width |-> lay.page_width,
     page_height |-> lay.page_height]

\* DocumentIntelligence.to_dict
ToDict(res) ==
    [doc_type |-> EnumValue(res.doc_type),
     type_confidence |-> res.type_confidence,
     layout |-> LayoutToDict(res.layout),
     extracted_fields |-> [ f \in DOMAIN res.extracted_fields |-> res.extracted_fields[f] ],
     raw_text |-> res.raw_text,
     metadata |-> res.metadata]

RECURSIVE GCD(_, _)
GCD(a, b) == IF b = 0 THEN a ELSE GCD(b, a % b)

\* A JSON number carries the value of the float (float(repr(x)) == x in Python), not
\* the quotient it was computed from: the value is the quotient in lowest terms.
JsonNumber(q) == LET g == GCD(q[1], q[2]) IN <<q[1] \div g, q[2] \div g>>

\* a JSON string: the newline character is written as the escape \n
JsonEscape(tok) == IF tok = NL THEN "\\n" ELSE tok

JsonUnescape_Identity(tok) == tok

JsonUnescape(tok) == IF tok = "\\n" THEN NL ELSE tok

JsonString(cs) == [ n \in 1..Len(cs) |-> JsonEscape(cs[n]) ]

PyString(js) == [ n \in 1..Len(js) |-> JsonUnescape(js[n]) ]

\* json.dumps of the parts of a layout dict
JsonWord(w) ==
    [text |-> JsonEscape(w.text), confidence |-> JsonNumber(w.confidence), bbox |-> w.bbox,
     position |-> w.position]

JsonLine(line) ==
    [text |-> JsonString(line.text), confidence |-> JsonNumber(line.confidence),
     bbox |-> line.bbox,
     words |-> [ n \in 1..Len(line.words) |-> JsonWord(line.words[n]) ]]

JsonTable(tb) == [tb EXCEPT !.confidence = JsonNumber(@)]

JsonLayout(d) ==
    [header |-> [ n \in 1..Len(d.header) |-> JsonLine(d.header[n]) ],
     body |-> [ n \in 1..Len(d.body) |-> JsonLine(d.body[n]) ],
     footer |-> [ n \in 1..Len(d.footer) |-> JsonLine(d.footer[n]) ],
     tables |-> [ n \in 1..Len(d.tables) |-> JsonTable(d.tables[n]) ],
     page_width |-> d.page_width,
     page_height |-> d.page_height]

\* json.dumps(d, indent=2), as the JSON document it writes
JsonDumps(d) ==
    [doc_type |-> JsonEscape(d.doc_type),
     type_confidence |-> JsonNumber(d.type_confidence),
     layout |-> JsonLayout(d.layout),
     extracted_fields |->
        [ f \in DOMAIN d.extracted_fields |->
            [name |-> JsonEscape(d.extracted_fields[f].name),
             value |-> JsonString(d.extracted_fields[f].value),
             confidence |-> JsonNumber(d.extracted_fields[f].confidence),
             source |-> JsonEscape(d.extracted_fields[f].source)] ],
     raw_text |-> JsonString(d.raw_text),
     metadata |-> d.metadata]

\* json.loads(j): the doc_type, type_confidence, raw_text and fields read back
JsonLoads(j) ==
    [doc_type |-> JsonUnescape(j.doc_type),
     type_confidence |-> j.type_confidence,
     extracted_fields |->
        [ f \in DOMAIN j.extracted_fields |->
            [name |-> JsonUnescape(j.extracted_fields[f].name),
             value |-> PyString(j.extracted_fields[f].value),
             confidence |-> j.extracted_fields[f].confidence,
             source |-> JsonUnescape(j.extracted_fields[f].source)] ],
     raw_text |-> PyString(j.raw_text),
     metadata |-> j.metadata]

\* the caller serializes the result: result.to_json()
Serialize ==
    /\ pc = "done"
    /\ json' = JsonDumps(ToDict(result))
    /\ pc' = "serialized"
    /\ UNCHANGED <<envVars, heap, extracted_fields, layout, loopVars, classVars, tableVars, result>>

-----------------------------------------------------------------------------
(* Classification: process_document from line 240 on, for a given raw text *)

\* all texts of at most n tokens
RECURSIVE TextsUpTo(_)
TextsUpTo(n) ==
    IF n = 0 THEN {<<>>}
    ELSE LET S == TextsUpTo(n - 1) IN S \cup { Append(t, v) : t \in S, v \in Vocabulary }

\* the raw texts a call is made with
Texts == TextsUpTo(MaxTextLen)

InitClassify ==
    /\ vision_available = TRUE
    /\ file = [opens |-> TRUE, reads |-> FALSE]
    /\ pc = "classify"
    /\ layout = DocumentLayout
    /\ data = <<>>
    /\ current_line_y = -1
    /\ current_line_text = <<>>
    /\ current_line_words = <<>>
    /\ current_line_bbox = <<0, 0, 0, 0>>
    /\ finalized = <<>>
    /\ raw_text \in Texts
    /\ scores = Unset
    /\ doc_type = None
    /\ type_confidence = Unset
    /\ extracted_fields = <<>>
    /\ img = Unset
    /\ lines = <<>>
    /\ result = Unset
    /\ json = Unset
    /\ heap = <<>>
    /\ custom_patterns = <<>>
    /\ calls = <<>>

\* line 240: doc_type, type_confidence = self._classify_document_type(raw_text)
Classify ==
    /\ pc = "classify"
    /\ scores' = Scores(Lower(raw_text))
    /\ doc_type' = ClassifyDocumentType(raw_text)[1]
    /\ type_confidence' = ClassifyDocumentType(raw_text)[2]
    /\ pc' = "classified"
    /\ UNCHANGED <<envVars, heap, extracted_fields, json, layout, loopVars, raw_text, tableVars, result>>

ExtractFields_SkipsTables ==
    /\ pc = "classified"
    /\ extracted_fields' = ExtractKeyFields(raw_text)
    /\ pc' = "detected"
    /\ UNCHANGED <<envVars, heap, json, layout, loopVars, classVars, tableVars, result>>

ExtractFields_ResetsLayout ==
    /\ pc = "classified"
    /\ extracted_fields' = ExtractKeyFields(raw_text)
    /\ layout' = DocumentLayout
    /\ pc' = "tables"
    /\ UNCHANGED <<envVars, heap, json, loopVars, classVars, tableVars, result>>

\* line 243: extracted_fields = self._extract_key_fields(raw_text, layout)
ExtractFields ==
    /\ pc = "classified"
    /\ extracted_fields' = ExtractKeyFields(raw_text)
    /\ pc' = "tables"
    /\ UNCHANGED <<envVars, heap, json, layout, loopVars, classVars, tableVars, result>>

-----------------------------------------------------------------------------
(* Table detection: process_document from line 246 on *)

\* the segments cv2.HoughLinesP reports, as (x1, y1, x2, y2); minLineLength = 50
Segments == {<<0, 10, 60, 14>>, <<0, 10, 60, 15>>, <<10, 0, 14, 60>>, <<10, 0, 15, 60>>}

\* all lists of at most n segments
RECURSIVE SegListsUpTo(_)
SegListsUpTo(n) ==
    IF n = 0 THEN {<<>>}
    ELSE LET S == SegListsUpTo(n - 1) IN S \cup { Append(l, g) : l \in S, g \in Segments }

\* the non-empty arrays HoughLinesP can return
SegLists == SegListsUpTo(MaxSegs) \ {<<>>}

IsHorizontal_Leq(l) == Abs(l[2] - l[4]) <= 5

\* "abs(l[0][1] - l[0][3]) < 5"
IsHorizontal(l) == Abs(l[2] - l[4]) < 5

\* "abs(l[0][0] - l[0][2]) < 5"
IsVertical(l) == Abs(l[1] - l[3]) < 5

\* Table(rows, cols, cells, bbox, confidence)
Table(rows, cols, cells, bbox, confidence) ==
    [rows |-> rows, cols |-> cols, cells |-> cells, bbox |-> bbox, confidence |-> confidence]

DetectTablesIn_Or(lay, image, ls) ==
    LET h_lines == SelectSeq(ls, IsHorizontal)
        v_lines == SelectSeq(ls, IsVertical)
    IN  IF Len(h_lines) > 2 \/ Len(v_lines) > 2
        THEN [lay EXCEPT !.tables = Append(@,
                Table(Len(h_lines) - 1, Len(v_lines) - 1,
                      [ r \in 1..(Len(h_lines) - 1) |-> [ c \in 1..(Len(v_lines) - 1) |-> "" ] ],
                      <<0, 0, image[1], image[2]>>, <<7, 10>>))]
        ELSE lay

DetectTablesIn_CountsAsRows(lay, image, ls) ==
    LET h_lines == SelectSeq(ls, IsHorizontal)
        v_lines == SelectSeq(ls, IsVertical)
    IN  IF Len(h_lines) > 2 /\ Len(v_lines) > 2
        THEN [lay EXCEPT !.tables = Append(@,
                Table(Len(h_lines), Len(v_lines),
                      [ r \in 1..(Len(h_lines) - 1) |-> [ c \in 1..(Len(v_lines) - 1) |-> "" ] ],
                      <<0, 0, image[1], image[2]>>, <<7, 10>>))]
        ELSE lay

\* lines 410-423: the layout after the segments ls were found in an image of size
\* image = (width, height) = (img.shape[1], img.shape[0])
DetectTablesIn(lay, image, ls) ==
    LET h_lines == SelectSeq(ls, IsHorizontal)
        v_lines == SelectSeq(ls, IsVertical)
    IN  IF Len(h_lines) > 2 /\ Len(v_lines) > 2
        THEN [lay EXCEPT !.tables = Append(@,
                Table(Len(h_lines) - 1, Len(v_lines) - 1,
                      [ r \in 1..(Len(h_lines) - 1) |-> [ c \in 1..(Len(v_lines) - 1) |-> "" ] ],
                      <<0, 0, image[1], image[2]>>, <<7, 10>>))]
        ELSE lay

\* the layout _extract_layout returned: no table yet
InitTables ==
    /\ vision_available \in BOOLEAN
    /\ file \in Files
    /\ pc = "tables"
    /\ layout \in {DocumentLayout}
                  \cup { [DocumentLayout EXCEPT !.page_width = size[1], !.page_height = size[2]] :
                           size \in IF vision_available /\ file.opens THEN ImageSizes ELSE {} }
    /\ data = <<>>
    /\ current_line_y = -1
    /\ current_line_text = <<>>
    /\ current_line_words = <<>>
    /\ current_line_bbox = <<0, 0, 0, 0>>
    /\ finalized = <<>>
    /\ raw_text = <<>>
    /\ scores = Unset
    /\ doc_type = "unknown"
    /\ type_confidence = <<0, 5>>
    /\ extracted_fields = <<>>
    /\ img = Unset
    /\ lines = <<>>
    /\ result = Unset
    /\ json = Unset
    /\ heap = <<>>
    /\ custom_patterns = <<>>
    /\ calls = <<>>

\* lines 395-396: no vision libraries
DetectTablesNoVision ==
    /\ pc = "tables"
    /\ ~vision_available
    /\ pc' = "detected"
    /\ UNCHANGED <<envVars, heap, extracted_fields, json, layout, loopVars, classVars, tableVars, result>>

\* lines 399-401: cv2.imread returns None
DetectTablesNoImage ==
    /\ pc = "tables"
    /\ vision_available
    /\ ~file.reads
    /\ pc' = "detected"
    /\ UNCHANGED <<envVars, heap, extracted_fields, json, layout, loopVars, classVars, tableVars, result>>

\* img.shape of the file cv2.imread reads: the size Image.open saw, if it saw one
ImagesOf(lay) ==
    IF lay.page_height = 0 THEN ImageSizes ELSE {<<lay.page_width, lay.page_height>>}

\* lines 404-408: cv2.HoughLinesP returns None
DetectTablesNoLines ==
    /\ pc = "tables"
    /\ vision_available
    /\ file.reads
    /\ \E image \in ImagesOf(layout) : img' = image
    /\ pc' = "detected"
    /\ UNCHANGED <<envVars, heap, extracted_fields, json, layout, loopVars, classVars, lines, result>>

\* lines 398-426: cv2 raises after the image was read; the exception is logged
DetectTablesError ==
    /\ pc = "tables"
    /\ vision_available
    /\ file.reads
    /\ \E image \in ImagesOf(layout) : img' = image
    /\ pc' = "detected"
    /\ UNCHANGED <<envVars, heap, extracted_fields, json, layout, loopVars, classVars, lines, result>>

\* lines 398-423: the segments ls were found
DetectTables(ls) ==
    /\ pc = "tables"
    /\ vision_available
    /\ file.reads
    /\ \E image \in ImagesOf(layout) :
          /\ img' = image
          /\ lines' = ls
          /\ layout' = DetectTablesIn(layout, image, ls)
    /\ pc' = "detected"
    /\ UNCHANGED <<envVars, heap, extracted_fields, json, loopVars, classVars, result>>

NextTables ==
    \/ DetectTablesNoVision
    \/ DetectTablesNoImage
    \/ DetectTablesNoLines
    \/ DetectTablesError
    \/ (pc = "tables" /\ \E ls \in SegLists : DetectTables(ls))
    \/ AssembleResult

SpecTables == InitTables /\ [][NextTables]_vars

\* classification of a given text, then the rest of the call on a file cv2 cannot read
NextClassify ==
    \/ Classify
    \/ ExtractFields
    \/ DetectTablesNoImage
    \/ AssembleResult

SpecClassify == InitClassify /\ [][NextClassify]_vars

-----------------------------------------------------------------------------
(* Field extraction: process_document from line 243 on, for a given raw text *)

\* the words of the texts fields are extracted from
FieldVocabulary ==
    {"invoice", "INV-1", "date", "due", "total", "to", "from", "x", ":", "1", "1/1",
     "x@x.io", "zip", "11111", "phone", "address", NL}

\* all texts of at most n words
RECURSIVE FieldTextsUpTo(_)
FieldTextsUpTo(n) ==
    IF n = 0 THEN {<<>>}
    ELSE LET S == FieldTextsUpTo(n - 1)
         IN  S \cup { Append(t, v) : t \in S, v \in FieldVocabulary }

FieldTexts == FieldTextsUpTo(MaxFieldLen)

\* the state after line 240, for a given raw text
InitFields ==
    /\ vision_available = TRUE
    /\ file = [opens |-> TRUE, reads |-> FALSE]
    /\ pc = "classified"
    /\ layout = DocumentLayout
    /\ data = <<>>
    /\ current_line_y = -1
    /\ current_line_text = <<>>
    /\ current_line_words = <<>>
    /\ current_line_bbox = <<0, 0, 0, 0>>
    /\ finalized = <<>>
    /\ raw_text \in FieldTexts
    /\ scores = Scores(Lower(raw_text))
    /\ doc_type = ClassifyDocumentType(raw_text)[1]
    /\ type_confidence = ClassifyDocumentType(raw_text)[2]
    /\ extracted_fields = <<>>
    /\ img = Unset
    /\ lines = <<>>
    /\ result = Unset
    /\ json = Unset
    /\ heap = <<>>
    /\ custom_patterns = <<>>
    /\ calls = <<>>

NextFields ==
    \/ ExtractFields
    \/ DetectTablesNoImage
    \/ AssembleResult
    \/ Serialize

SpecFields == InitFields /\ [][NextFields]_vars

-----------------------------------------------------------------------------
(* process_document, from the call to the returned result *)

\* "\n".join(line.text for line in all_lines)
RECURSIVE JoinLines(_)
JoinLines(ls) ==
    IF ls = <<>> THEN <<>>
    ELSE IF Len(ls) = 1 THEN ls[1].text
    ELSE ls[1].text \o <<NL>> \o JoinLines(Tail(ls))

ExtractRawTextOf_FooterFirst(lay) == JoinLines(lay.footer \o lay.body \o lay.header)

\* _extract_raw_text(layout)
ExtractRawTextOf(lay) == JoinLines(lay.header \o lay.body \o lay.footer)

\* line 237: raw_text = self._extract_raw_text(layout)
ExtractRawText ==
    /\ pc = "returned"
    /\ raw_text' = ExtractRawTextOf(layout)
    /\ pc' = "classify"
    /\ UNCHANGED <<envVars, heap, extracted_fields, json, layout, loopVars, scores, doc_type,
                   type_confidence, tableVars, result>>

ExtractLayoutOcrError_Propagates ==
    /\ pc = "loop"
    /\ pc' = "raised"
    /\ UNCHANGED <<envVars, heap, extracted_fields, json, layout, loopVars, classVars, tableVars,
                   result>>

\* lines 280-330: pytesseract raises, or an entry of data cannot be read (float(conf)),
\* before any assignment of the iteration; the exception is logged and the layout
\* returned with the lines finalized so far
ExtractLayoutOcrError ==
    /\ pc = "loop"
    /\ pc' = "returned"
    /\ UNCHANGED <<envVars, heap, extracted_fields, json, layout, loopVars, classVars, tableVars,
                   result>>

\* the OCR entries of the documents processed: two words, on two lines, and a blank
PipeWords ==
    { [text |-> s, top |-> t, left |-> 0, width |-> 3, height |-> 1, conf |-> 90] :
        s \in {"invoice", "to"}, t \in {0, 31} }
    \cup { [text |-> " ", top |-> 31, left |-> 0, width |-> 0, height |-> 0, conf |-> -1] }

\* the segment arrays of the documents processed: a 3 x 3 grid, and one line short of it
PipeSegLists ==
    { << <<0, 10, 60, 14>>, <<0, 10, 60, 14>>, <<0, 10, 60, 14>>,
         <<10, 0, 14, 60>>, <<10, 0, 14, 60>>, <<10, 0, 14, 60>> >>,
      << <<0, 10, 60, 14>>, <<0, 10, 60, 14>>, <<0, 10, 60, 14>>,
         <<10, 0, 14, 60>>, <<10, 0, 14, 60>> >> }

\* process_document(file_path) is called on an engine
Init ==
    /\ vision_available \in BOOLEAN
    /\ file \in Files
    /\ pc = "start"
    /\ layout = DocumentLayout
    /\ data = <<>>
    /\ current_line_y = -1
    /\ current_line_text = <<>>
    /\ current_line_words = <<>>
    /\ current_line_bbox = <<0, 0, 0, 0>>
    /\ finalized = <<>>
    /\ raw_text = <<>>
    /\ scores = Unset
    /\ doc_type = None
    /\ type_confidence = Unset
    /\ extracted_fields = <<>>
    /\ img = Unset
    /\ lines = <<>>
    /\ result = Unset
    /\ json = Unset
    /\ heap = <<>>
    /\ custom_patterns = <<>>
    /\ calls = <<>>

Next ==
    \/ ExtractLayoutNoVision
    \/ ExtractLayoutOpenError
    \/ \E size \in ImageSizes : ExtractLayoutBegin(size)
    \/ \E w \in PipeWords : LoopSkipBlank(w)
    \/ \E w \in PipeWords : LoopAddWord(w)
    \/ \E w \in PipeWords : LoopBreakLine(w)
    \/ ExtractLayoutOcrError
    \/ ExtractLayoutEnd
    \/ ExtractRawText
    \/ Classify
    \/ ExtractFields
    \/ DetectTablesNoVision
    \/ DetectTablesNoImage
    \/ DetectTablesNoLines
    \/ DetectTablesError
    \/ \E ls \in PipeSegLists : DetectTables(ls)
    \/ AssembleResult
    \/ Serialize

Spec == Init /\ [][Next]_vars

\* the steps that end the position they are taken at and whose guards read only the
\* position, the engine's flag and the file
LightNext ==
    \/ ExtractLayoutNoVision
    \/ ExtractLayoutOpenError
    \/ \E size \in ImageSizes : ExtractLayoutBegin(size)
    \/ ExtractLayoutOcrError
    \/ ExtractLayoutEnd
    \/ ExtractRawText
    \/ DetectTablesNoVision
    \/ DetectTablesNoImage
    \/ DetectTablesNoLines
    \/ DetectTablesError
    \/ AssembleResult

\* The call is synchronous: it keeps running until it has moved on to its next position.
\* Classify and ExtractFields are enabled exactly at their positions (their other
\* conjuncts assign), so fairness for them is stated on the position.
FairSpec ==
    /\ Spec
    /\ WF_pc(LightNext)
    /\ WF_pc(pc = "classify" /\ pc' = "classified")
    /\ WF_pc(pc = "classified" /\ pc' = "tables")

-----------------------------------------------------------------------------
(* Several process_document calls on one engine *)

\* the ids of the calls running on the shared engine
CallIds == {1, 2}

\* the locals of the single call modelled above
singleVars == <<file, pc, layout, loopVars, classVars, extracted_fields, tableVars, result,
                json, heap>>

\* the lines _extract_layout finalizes for a whole stream of entries
RECURSIVE RunLoop(_, _)
RunLoop(st, s) == IF s = <<>> THEN LoopEnd(st) ELSE RunLoop(LoopStep(st, Head(s)), Tail(s))

\* the for loop over a whole stream, without the final line
RECURSIVE FoldLoop(_, _)
FoldLoop(st, s) == IF s = <<>> THEN st ELSE FoldLoop(LoopStep(st, Head(s)), Tail(s))

PipeWord(s, t) == [text |-> s, top |-> t, left |-> 0, width |-> 3, height |-> 1, conf |-> 90]

\* A document is what the libraries answer for one file_path: whether the file opens
\* and reads, the image size, the OCR entries, the number of entries after which OCR
\* raises (-1: never), the segments found (<<>>: HoughLinesP returns None) and whether
\* cv2 raises.
Docs ==
    { [file |-> [opens |-> FALSE, reads |-> FALSE], size |-> <<40, 30>>, words |-> <<>>,
       fail_at |-> -1, segs |-> <<>>, cv_fails |-> FALSE],
      [file |-> [opens |-> TRUE, reads |-> TRUE], size |-> <<40, 30>>,
       words |-> <<PipeWord("invoice", 0), PipeWord("to", 31)>>,
       fail_at |-> -1,
       segs |-> << <<0, 10, 60, 14>>, <<0, 10, 60, 14>>, <<0, 10, 60, 14>>,
                   <<10, 0, 14, 60>>, <<10, 0, 14, 60>>, <<10, 0, 14, 60>> >>,
       cv_fails |-> FALSE],
      [file |-> [opens |-> TRUE, reads |-> TRUE], size |-> <<40, 31>>,
       words |-> <<PipeWord("to", 0), PipeWord("invoice", 0)>>,
       fail_at |-> -1, segs |-> <<>>, cv_fails |-> FALSE],
      [file |-> [opens |-> TRUE, reads |-> TRUE], size |-> <<40, 30>>,
       words |-> <<PipeWord("invoice", 0), PipeWord("to", 31), PipeWord("to", 31)>>,
       fail_at |-> 2,
       segs |-> << <<0, 10, 60, 14>>, <<0, 10, 60, 14>>, <<0, 10, 60, 14>>,
                   <<10, 0, 14, 60>>, <<10, 0, 14, 60>>, <<10, 0, 14, 60>> >>,
       cv_fails |-> TRUE] }

\* _extract_layout(file_path) on the document doc
ExtractLayoutOf(vision, doc) ==
    IF ~vision \/ ~doc.file.opens THEN DocumentLayout
    ELSE LET sized == [DocumentLayout EXCEPT !.page_width = doc.size[1],
                                             !.page_height = doc.size[2]]
         IN  IF doc.fail_at >= 0
             THEN FoldLoop(LoopInit(sized), SubSeq(doc.words, 1, doc.fail_at)).layout
             ELSE RunLoop(LoopInit(sized), doc.words).layout

\* _detect_tables(file_path, layout) on the document doc
DetectTablesOf(vision, doc, lay) ==
    IF ~vision \/ ~doc.file.reads \/ doc.cv_fails \/ doc.segs = <<>> THEN lay
    ELSE DetectTablesIn(lay, doc.size, doc.segs)

\* process_document(file_path) run alone on the document doc
ProcessDocumentOf(vision, doc) ==
    LET lay == ExtractLayoutOf(vision, doc)
        text == ExtractRawTextOf(lay)
        cls == ClassifyDocumentType(text)
    IN  DocumentIntelligence(cls[1], cls[2], DetectTablesOf(vision, doc, lay),
                             ExtractKeyFields(text), text, vision)

\* the locals of a call that has just been made
NewCall(doc) ==
    [pc |-> "start", doc |-> doc, layout |-> Unset, raw_text |-> <<>>, doc_type |-> None,
     type_confidence |-> Unset, extracted_fields |-> <<>>, result |-> Unset]

InitConcurrent ==
    /\ vision_available \in BOOLEAN
    /\ calls \in [CallIds -> { NewCall(doc) : doc \in Docs }]
    /\ file = [opens |-> TRUE, reads |-> TRUE]
    /\ pc = "calls"
    /\ layout = DocumentLayout
    /\ data = <<>>
    /\ current_line_y = -1
    /\ current_line_text = <<>>
    /\ current_line_words = <<>>
    /\ current_line_bbox = <<0, 0, 0, 0>>
    /\ finalized = <<>>
    /\ raw_text = <<>>
    /\ scores = Unset
    /\ doc_type = None
    /\ type_confidence = Unset
    /\ extracted_fields = <<>>
    /\ img = Unset
    /\ lines = <<>>
    /\ result = Unset
    /\ json = Unset
    /\ heap = <<>>
    /\ custom_patterns = <<>>

\* line 236 in call c
CallExtractLayout(c) ==
    /\ calls[c].pc = "start"
    /\ calls' = [calls EXCEPT ![c].layout = ExtractLayoutOf(vision_available, calls[c].doc),
                              ![c].pc = "returned"]
    /\ UNCHANGED <<vision_available, custom_patterns, singleVars>>

\* line 237 in call c
CallExtractRawText(c) ==
    /\ calls[c].pc = "returned"
    /\ calls' = [calls EXCEPT ![c].raw_text = ExtractRawTextOf(calls[c].layout),
                              ![c].pc = "classify"]
    /\ UNCHANGED <<vision_available, custom_patterns, singleVars>>

\* line 240 in call c
CallClassify(c) ==
    /\ calls[c].pc = "classify"
    /\ calls' = [calls EXCEPT ![c].doc_type = ClassifyDocumentType(calls[c].raw_text)[1],
                              ![c].type_confidence = ClassifyDocumentType(calls[c].raw_text)[2],
                              ![c].pc = "classified"]
    /\ UNCHANGED <<vision_available, custom_patterns, singleVars>>

\* line 243 in call c
CallExtractFields(c) ==
    /\ calls[c].pc = "classified"
    /\ calls' = [calls EXCEPT ![c].extracted_fields = ExtractKeyFields(calls[c].raw_text),
                              ![c].pc = "tables"]
    /\ UNCHANGED <<vision_available, custom_patterns, singleVars>>

CallDetectTables_ClearsFlag(c) ==
    /\ calls[c].pc = "tables"
    /\ calls' = [calls EXCEPT ![c].layout = DetectTablesOf(vision_available, calls[c].doc, @),
                              ![c].pc = "detected"]
    /\ vision_available' = (vision_available /\ ~calls[c].doc.cv_fails)
    /\ UNCHANGED <<custom_patterns, singleVars>>

\* line 246 in call c
CallDetectTables(c) ==
    /\ calls[c].pc = "tables"
    /\ calls' = [calls EXCEPT ![c].layout = DetectTablesOf(vision_available, calls[c].doc, @),
                              ![c].pc = "detected"]
    /\ UNCHANGED <<vision_available, custom_patterns, singleVars>>

\* lines 249-264 in call c
CallAssembleResult(c) ==
    /\ calls[c].pc = "detected"
    /\ calls' = [calls EXCEPT ![c].result =
                                 DocumentIntelligence(calls[c].doc_type,
                                                      calls[c].type_confidence,
                                                      calls[c].layout,
                                                      calls[c].extracted_fields,
                                                      calls[c].raw_text, vision_available),
                              ![c].pc = "done"]
    /\ UNCHANGED <<vision_available, custom_patterns, singleVars>>

NextConcurrent ==
    \E c \in CallIds :
        \/ CallExtractLayout(c)
        \/ CallExtractRawText(c)
        \/ CallClassify(c)
        \/ CallExtractFields(c)
        \/ CallDetectTables(c)
        \/ CallAssembleResult(c)

SpecConcurrent == InitConcurrent /\ [][NextConcurrent]_vars

-----------------------------------------------------------------------------
(* Layout claims *)

SeqRange(s) == { s[k] : k \in 1..Len(s) }

SetMin(S) == CHOOSE m \in S : \A n \in S : m <= n

SetMax(S) == CHOOSE m \in S : \A n \in S : m >= n

\* the union of the words' boxes as (left, top, right, bottom)
WordsBBox(words) ==
    <<SetMin({ w.bbox[1] : w \in SeqRange(words) }),
      SetMin({ w.bbox[2] : w \in SeqRange(words) }),
      SetMax({ w.bbox[1] + w.bbox[3] : w \in SeqRange(words) }),
      SetMax({ w.bbox[2] + w.bbox[4] : w \in SeqRange(words) })>>

InExtraction == pc \in {"loop", "returned"}

\* C1: every line finalized by layout extraction has the bounding box that is the
\* component-wise min of left/top and max of right/bottom over exactly its own words.
C1_BBoxIsUnionOfOwnWords ==
    InExtraction =>
        \A k \in 1..Len(finalized) : finalized[k].bbox = WordsBBox(finalized[k].words)

\* C2: with page height 0 every finalized line is in body: header and footer stay empty.
C2_ZeroHeightAllBody ==
    layout.page_height = 0 => layout.header = <<>> /\ layout.footer = <<>>

SeqBag(s) == [ x \in SeqRange(s) |-> Cardinality({ k \in 1..Len(s) : s[k] = x }) ]

\* C3: with page height > 0 every finalized line is in exactly one of header, body,
\* footer: the three lengths add up to the number of finalized lines, and the lines of
\* the three sections together are the finalized lines, each as often as it was finalized.
C3_ExactlyOneSection ==
    layout.page_height > 0 =>
        /\ Len(layout.header) + Len(layout.body) + Len(layout.footer) = Len(finalized)
        /\ SeqBag(layout.header \o layout.body \o layout.footer) = SeqBag(finalized)

C3_Witness ==
    /\ layout.page_height > 0
    /\ layout.header # <<>>
    /\ layout.body # <<>>
    /\ layout.footer # <<>>

\* C4: with page height H > 0 a line with bbox top y is in header iff y < H/3, in footer
\* iff y > 2H/3 and in body otherwise; y = H/3 and y = 2H/3 are body.
C4_SectionByTop ==
    layout.page_height > 0 =>
        \A k \in 1..Len(finalized) :
            LET line == finalized[k]
                y == line.bbox[2]
                H == layout.page_height
            IN  /\ line \in SeqRange(layout.header) <=> 3 * y < H
                /\ line \in SeqRange(layout.footer) <=> 3 * y > 2 * H
                /\ line \in SeqRange(layout.body) <=> (3 * y >= H /\ 3 * y <= 2 * H)

C4_Witness ==
    /\ layout.page_height = 30
    /\ \E a, b \in SeqRange(layout.body) : a.bbox[2] = 10 /\ b.bbox[2] = 20
    /\ \E c \in SeqRange(layout.header) : c.bbox[2] = 0

\* the non-blank entries of the consumed OCR stream
RECURSIVE NonBlank(_)
NonBlank(s) ==
    IF s = <<>> THEN <<>>
    ELSE IF Head(s).text \in {"", " "} THEN NonBlank(Tail(s))
         ELSE <<Head(s)>> \o NonBlank(Tail(s))

\* the positions k where a line break lies between non-blank words k and k+1
BreaksOf(nb) == { k \in 1..(Len(nb) - 1) : Abs(nb[k + 1].top - nb[k].top) > 10 }

\* the number of the line the k-th non-blank word belongs to
LineOf(nb, k) == 1 + Cardinality({ j \in BreaksOf(nb) : j < k })

RECURSIVE Flatten(_)
Flatten(ls) == IF ls = <<>> THEN <<>> ELSE Head(ls).words \o Flatten(Tail(ls))

WordOf(w) == Word(w.text, w.conf, <<w.left, w.top, w.width, w.height>>)

LinesOfTops(tops) ==
    RunLoop(LoopInit(DocumentLayout),
            [ k \in 1..Len(tops) |->
                [text |-> "a", top |-> tops[k], left |-> 0, width |-> 3, height |-> 1,
                 conf |-> 90] ]).lines

\* C5: two consecutive non-blank words are in different lines iff their tops differ by
\* more than 10 (the reference is the previous word's top); the number of lines is
\* 1 + the number of breaks; tops 10,12,9,11,200 give exactly 2 lines.
C5_BreakIffTopDiffOver10 ==
    /\ InExtraction =>
        LET nb == NonBlank(data)
            open == IF pc = "loop" /\ current_line_words # <<>>
                    THEN <<[words |-> current_line_words]>> ELSE <<>>
            ls == finalized \o open
        IN  /\ Flatten(ls) = [ k \in 1..Len(nb) |-> WordOf(nb[k]) ]
            /\ Len(ls) = IF nb = <<>> THEN 0 ELSE 1 + Cardinality(BreaksOf(nb))
            /\ \A l \in 1..Len(ls) :
                  Len(ls[l].words) = Cardinality({ k \in 1..Len(nb) : LineOf(nb, k) = l })
            /\ pc = "loop" => current_line_text = [ k \in 1..Len(current_line_words) |->
                                                      current_line_words[k].text ]
    /\ Len(LinesOfTops(<<10, 12, 9, 11, 200>>)) = 2

C5_Witness ==
    /\ pc = "returned"
    /\ Len(finalized) = 2
    /\ Len(finalized[1].words) = 2
    /\ finalized[1].words[1].bbox[2] = 10
    /\ finalized[1].words[2].bbox[2] = 20
    /\ finalized[2].words[1].bbox[2] = 31

-----------------------------------------------------------------------------
(* Classification claims *)

Classified == pc \in {"classified", "done"}

\* a = b and a <= b for quotients
QEq(a, b) == a[1] * b[2] = b[1] * a[2]

QLeq(a, b) == a[1] * b[2] <= b[1] * a[2]

\* the patterns of the k-th type that match the lowercased text t
MatchSet(k, t) ==
    { j \in 1..Len(DocTypePatterns[k].patterns) : Search(DocTypePatterns[k].patterns[j], Lower(t)) }

TypeIndex(type) == CHOOSE k \in 1..Len(DocTypePatterns) : DocTypePatterns[k].type = type

\* C6: classify returns the maximal score as confidence and the type that has it, but
\* UNKNOWN exactly when that score is < 0.2 (a score of exactly 0.2 returns the type);
\* a text matching >= 2 of the 5 invoice patterns, no other type scoring higher, is
\* INVOICE with confidence >= 0.3.
C6_MaxScoreOrUnknownBelowThreshold ==
    Classified =>
        /\ \A k \in DOMAIN scores : QLeq(scores[k], type_confidence)
        /\ \E k \in DOMAIN scores : scores[k] = type_confidence
        /\ doc_type = "unknown" <=> 5 * type_confidence[1] < type_confidence[2]
        /\ doc_type # "unknown" =>
              /\ doc_type \in { DocTypePatterns[k].type : k \in DOMAIN scores }
              /\ QEq(scores[TypeIndex(doc_type)], type_confidence)
        /\ QEq(type_confidence, <<1, 5>>) => doc_type # "unknown"
        /\ ( /\ Cardinality(MatchSet(1, raw_text)) >= 2
             /\ \A k \in DOMAIN scores : QLeq(scores[k], scores[1]) )
           => doc_type = "invoice" /\ QLeq(<<3, 10>>, type_confidence)

C6_Witness ==
    /\ pc = "classified"
    /\ Cardinality(MatchSet(1, raw_text)) = 2
    /\ doc_type = "invoice"
    /\ type_confidence = <<2, 5>>

\* C7: if no pattern of any type matches the text (the empty text included), classify
\* returns UNKNOWN with confidence exactly 0.0.
C7_NoMatchIsUnknownZero ==
    (Classified /\ \A k \in 1..Len(DocTypePatterns) : MatchSet(k, raw_text) = {})
        => doc_type = "unknown" /\ type_confidence[1] = 0

C7_Witness ==
    /\ pc = "classified"
    /\ Len(raw_text) = MaxTextLen
    /\ \A k \in 1..Len(DocTypePatterns) : MatchSet(k, raw_text) = {}
    /\ doc_type = "unknown"

\* the texts the scores of raw_text are compared with: one more token, which may be
\* one the text already has
Neighbours(t) == { Append(t, v) : v \in Vocabulary }

\* C8: for every type, if the patterns that match text A are among those that match
\* text B, then score(type, A) <= score(type, B); in particular more occurrences of the
\* same patterns leave the score as it is.
C8_ScoreMonotoneInMatchSet ==
    pc = "classified" =>
        \A B \in Neighbours(raw_text) : \A k \in DOMAIN scores :
            LET mA == MatchSet(k, raw_text)
                mB == MatchSet(k, B)
                sB == Scores(Lower(B))[k]
            IN  /\ mA \subseteq mB => QLeq(scores[k], sB)
                /\ mB \subseteq mA => QLeq(sB, scores[k])

C8_Witness ==
    /\ pc = "classified"
    /\ raw_text = <<"invoice", "INVOICE">>
    /\ scores[1] = <<1, 5>>

\* C9: the confidence classify returns, and the type_confidence of the result, lies in
\* [0, 1]; the type is one of invoice, receipt, contract, form, letter, report, unknown.
C9_ConfidenceInUnitIntervalTypeClosed ==
    /\ Classified =>
          /\ type_confidence[2] > 0
          /\ 0 <= type_confidence[1]
          /\ type_confidence[1] <= type_confidence[2]
          /\ doc_type \in DocumentType
    /\ pc = "done" =>
          /\ result.type_confidence = type_confidence
          /\ result.doc_type = doc_type

C9_Witness ==
    /\ pc = "done"
    /\ result.doc_type = "letter"
    /\ result.type_confidence = <<1, 4>>

-----------------------------------------------------------------------------
(* Table claims *)

HCount(ls) == Cardinality({ k \in 1..Len(ls) : Abs(ls[k][2] - ls[k][4]) < 5 })

VCount(ls) == Cardinality({ k \in 1..Len(ls) : Abs(ls[k][1] - ls[k][3]) < 5 })

\* C10: table detection adds no table when the horizontal or the vertical segment count
\* is <= 2 and exactly one table when both are > 2; the layout of a process_document
\* result has at most one table.
C10_TableIffBothCountsOver2 ==
    /\ pc \in {"detected", "done"} =>
          Len(layout.tables) =
              IF HCount(lines) > 2 /\ VCount(lines) > 2 THEN 1 ELSE 0
    /\ pc = "done" => Len(result.layout.tables) <= 1

C10_Witness ==
    /\ pc = "done"
    /\ HCount(lines) = 1
    /\ VCount(lines) = 5
    /\ result.layout.tables = <<>>

\* C11: every emitted table has rows = horizontal count - 1 and cols = vertical count - 1
\* (3 horizontal + 3 vertical segments give rows = 2, cols = 2), a grid of rows x cols
\* cells that are all the empty string, the bounding box (0, 0, width, height) of the
\* image and confidence 0.7; rows and cols are never negative.
C11_TableShapeFromCounts ==
    /\ pc \in {"detected", "done"} =>
          \A k \in 1..Len(layout.tables) :
              LET tb == layout.tables[k]
              IN  /\ tb.rows = HCount(lines) - 1
                  /\ tb.cols = VCount(lines) - 1
                  /\ tb.rows >= 0
                  /\ tb.cols >= 0
                  /\ Len(tb.cells) = tb.rows
                  /\ \A r \in 1..tb.rows :
                        /\ Len(tb.cells[r]) = tb.cols
                        /\ \A c \in 1..tb.cols : tb.cells[r][c] = ""
                  /\ tb.bbox = <<0, 0, img[1], img[2]>>
                  /\ tb.confidence = <<7, 10>>
    /\ (pc \in {"detected", "done"} /\ HCount(lines) = 3 /\ VCount(lines) = 3) =>
          /\ Len(layout.tables) = 1
          /\ layout.tables[1].rows = 2
          /\ layout.tables[1].cols = 2

C11_Witness ==
    /\ pc = "done"
    /\ HCount(lines) = 3
    /\ VCount(lines) = 3
    /\ Len(result.layout.tables) = 1
    /\ result.layout.tables[1].rows = 2
    /\ result.layout.tables[1].bbox = <<0, 0, 40, 31>>

-----------------------------------------------------------------------------
(* Field claims *)

FieldsExtracted == pc \in {"tables", "detected", "done"}

\* the field's pattern matches somewhere in the lowercased text
PatternMatches(f, text) ==
    \E i \in 1..(Len(Chars(Lower(text))) + 1) :
        Match(FieldPatterns[f], Chars(Lower(text)), i, <<0, 0>>) # <<>>

\* C12: extracted_fields has a key for a field iff the field's pattern matches the
\* lowercased text, and no field is present with an empty (after trimming) value.
C12_PresentIffMatchNeverEmpty ==
    FieldsExtracted =>
        \A f \in FieldNames :
            /\ f \in DOMAIN extracted_fields <=> PatternMatches(f, raw_text)
            /\ f \in DOMAIN extracted_fields => extracted_fields[f].value # <<>>

\* C13: the keys of the extracted field map are among the 10 fields of the catalog;
\* each entry's name is its key, its confidence is 0.85 and its source is "regex".
C13_KeysInCatalogFixedConfidence ==
    /\ Cardinality(FieldNames) = 10
    /\ FieldsExtracted =>
          /\ DOMAIN extracted_fields \subseteq FieldNames
          /\ \A f \in DOMAIN extracted_fields :
                /\ extracted_fields[f].name = f
                /\ extracted_fields[f].confidence = <<85, 100>>
                /\ extracted_fields[f].source = "regex"
    /\ pc = "done" => result.extracted_fields = extracted_fields

C13_Witness ==
    /\ pc = "done"
    /\ raw_text = <<"invoice", "INV-1">>
    /\ DOMAIN result.extracted_fields = {"invoice_number"}
    /\ result.extracted_fields["invoice_number"].value = <<"inv", "-", "1">>

-----------------------------------------------------------------------------
(* Claims on process_document *)

\* the words of the lines of a layout
LayoutWords(lay) == Flatten(lay.header \o lay.body \o lay.footer)

\* a DocumentIntelligence with every attribute set to a value of its type
ResultComplete(res) ==
    /\ res.doc_type \in DocumentType
    /\ res.type_confidence[2] > 0
    /\ 0 <= res.type_confidence[1]
    /\ res.type_confidence[1] <= res.type_confidence[2]
    /\ DOMAIN res.layout = {"header", "body", "footer", "tables", "page_width", "page_height"}
    /\ DOMAIN res.extracted_fields \subseteq FieldNames
    /\ res.raw_text = ExtractRawTextOf([res.layout EXCEPT !.tables = <<>>])
    /\ res.metadata.vision_available \in BOOLEAN

\* C15: process_document never raises and always ends with a complete result, whatever
\* fails: the file missing or unreadable, no vision libraries, OCR failing in the middle
\* of the word stream, table detection failing.
C15_AlwaysReturnsCompleteResult ==
    /\ [](pc # "raised")
    /\ <>(pc = "done" /\ ResultComplete(result))

C15_Witness ==
    /\ pc = "done"
    /\ vision_available
    /\ file.reads
    /\ lines = <<>>
    /\ finalized # <<>>
    /\ Len(LayoutWords(result.layout)) < Len(NonBlank(data))
    /\ ResultComplete(result)

StageSteps ==
    {<<"start", "loop">>, <<"start", "returned">>, <<"loop", "returned">>,
     <<"returned", "classify">>, <<"classify", "classified">>, <<"classified", "tables">>,
     <<"tables", "detected">>, <<"detected", "done">>, <<"done", "serialized">>}

\* C17: the stages of a call run in the order layout extraction, classification, field
\* extraction, table detection, result assembly; each runs once, none is re-entered or
\* rolled back (its outputs are assigned in its own step only), and a failing stage
\* still hands over to the next.
C17_StagesInOrderOnce ==
    [][ /\ pc' # pc => <<pc, pc'>> \in StageSteps
        /\ layout' # layout => (pc \in {"start", "loop"} \/ <<pc, pc'>> = <<"tables", "detected">>)
        /\ raw_text' # raw_text => <<pc, pc'>> = <<"returned", "classify">>
        /\ <<doc_type, type_confidence>>' # <<doc_type, type_confidence>>
              => <<pc, pc'>> = <<"classify", "classified">>
        /\ extracted_fields' # extracted_fields => <<pc, pc'>> = <<"classified", "tables">>
        /\ <<pc, pc'>> = <<"tables", "detected">> =>
              [layout' EXCEPT !.tables = <<>>] = [layout EXCEPT !.tables = <<>>]
        /\ <<pc, pc'>> = <<"detected", "done">> =>
              result' = DocumentIntelligence(doc_type, type_confidence, layout,
                                             extracted_fields, raw_text, vision_available)
      ]_vars

C17_Witness ==
    /\ pc = "done"
    /\ vision_available
    /\ ~file.opens
    /\ file.reads
    /\ Len(result.layout.tables) = 1
    /\ result.layout.header = <<>>

\* C18: calls interleaved on one engine do not interfere: no step writes the engine's
\* flag (the catalogs are constants), a step of one call leaves the locals of the
\* others alone, and each call's result is the result of running it alone.
C18_CallsDoNotInterfere ==
    /\ [](\A c \in DOMAIN calls :
            calls[c].pc = "done" =>
                calls[c].result = ProcessDocumentOf(vision_available, calls[c].doc))
    /\ [][ /\ vision_available' = vision_available
           /\ \A c \in DOMAIN calls :
                calls'[c] # calls[c] =>
                    \A d \in DOMAIN calls \ {c} : calls'[d] = calls[d]
         ]_vars

C18_Witness ==
    /\ DOMAIN calls = CallIds
    /\ calls[1].pc = "done"
    /\ calls[2].pc = "tables"
    /\ calls[1].doc.cv_fails
    /\ calls[2].doc.file.opens
    /\ calls[2].doc.segs = <<>>
    /\ calls[1].result.doc_type = "invoice"
    /\ calls[2].doc_type = "letter"
    /\ vision_available

-----------------------------------------------------------------------------
(* Further layout claims *)

\* C19: in layout extraction each finalized line is in the section given by the minimum
\* top-coordinate of its own words, whatever the lines before it (a line at top 10
\* followed by a line whose words are all at top 800, H = 900: header, then footer).
C19_SectionByOwnWordsTop ==
    (InExtraction /\ layout.page_height > 0) =>
        \A k \in 1..Len(finalized) :
            LET line == finalized[k]
                y == SetMin({ w.bbox[2] : w \in SeqRange(line.words) })
                H == layout.page_height
            IN  /\ line \in SeqRange(layout.header) <=> 3 * y < H
                /\ line \in SeqRange(layout.footer) <=> 3 * y > 2 * H
                /\ line \in SeqRange(layout.body) <=> (3 * y >= H /\ 3 * y <= 2 * H)

\* the layout Image.open's size gives, before any line
SizedLayout == [DocumentLayout EXCEPT !.page_width = layout.page_width,
                                      !.page_height = layout.page_height]

\* C20: blank words (empty or whitespace-only text) are skipped: they are in no line,
\* and the accumulator, the finalized lines and the layout are what the loop gives on
\* the stream with the blank words removed.
C20_BlankWordsSkipped ==
    InExtraction =>
        /\ \A k \in 1..Len(finalized) : \A w \in SeqRange(finalized[k].words) :
              w.text \notin {"", " "}
        /\ \A w \in SeqRange(current_line_words) : w.text \notin {"", " "}
        /\ \A k \in 1..Len(current_line_text) : current_line_text[k] \notin {"", " "}
        /\ pc = "loop" => Locals = FoldLoop(LoopInit(SizedLayout), NonBlank(data))
        /\ pc = "returned" =>
              LET end == RunLoop(LoopInit(SizedLayout), NonBlank(data))
              IN  layout = end.layout /\ finalized = end.lines

C20_Witness ==
    /\ pc = "returned"
    /\ Len(data) = 3
    /\ data[1].top = 0
    /\ data[2].text = " "
    /\ data[3].top = 10
    /\ data[3].text = "a"
    /\ Len(finalized) = 1
    /\ Len(finalized[1].words) = 2

\* C21: when layout extraction has completed, the words of the finalized lines, line
\* after line, are exactly the non-blank words of the stream in stream order (none lost,
\* none twice, the last line flushed); no line is empty; each line's text is its words'
\* texts in order, joined by single spaces; and the layout holds each finalized line.
C21_EveryWordInExactlyOneLine ==
    (pc = "returned") =>
        LET nb == NonBlank(data)
        IN  /\ Flatten(finalized) = [ k \in 1..Len(nb) |-> WordOf(nb[k]) ]
            /\ \A l \in 1..Len(finalized) :
                  /\ finalized[l].words # <<>>
                  /\ finalized[l].text = [ k \in 1..Len(finalized[l].words) |->
                                             finalized[l].words[k].text ]
            /\ SeqBag(layout.header \o layout.body \o layout.footer) = SeqBag(finalized)

C21_Witness ==
    /\ pc = "returned"
    /\ Len(data) = 3
    /\ Len(finalized) = 2
    /\ Len(finalized[1].words) = 1
    /\ Len(finalized[2].words) = 2
    /\ finalized[2].text = <<"a", "a">>

-----------------------------------------------------------------------------
(* _extract_layout with its word lists as objects: current_line_words and the words
   field of a TextLine hold the address of a list, heap[a] is the content of the list
   at address a.  Strings, tuples and floats are immutable and stay values. *)

\* TextLine(text=text, words=words, ...) at lines 338-343: the line keeps the list it was
\* given, its confidence is computed from the list's content at that moment
TextLineAt(h, text, ref, bbox) == [TextLine(text, h[ref], bbox) EXCEPT !.words = ref]

\* the section _finalize_text_line appends to (lines 345-350)
SectionAt(lay, h, text, ref, bbox) ==
    LET l == FinalizeTextLine([DocumentLayout EXCEPT !.page_height = lay.page_height],
                              text, h[ref], bbox)
    IN  CHOOSE sec \in {"header", "body", "footer"} : l[sec] # <<>>

\* _finalize_text_line(layout, text, words, bbox) with words the list at address ref
FinalizeTextLineAt(lay, h, text, ref, bbox) ==
    [lay EXCEPT ![SectionAt(lay, h, text, ref, bbox)] = Append(@, TextLineAt(h, text, ref, bbox))]

\* the state after lines 268-286: image opened, "current_line_words = []" made list 1
InitHeap ==
    /\ vision_available = TRUE
    /\ file = [opens |-> TRUE, reads |-> TRUE]
    /\ pc = "loop"
    /\ layout \in { [DocumentLayout EXCEPT !.page_width = size[1], !.page_height = size[2]] :
                      size \in ImageSizes }
    /\ data = <<>>
    /\ current_line_y = -1
    /\ current_line_text = <<>>
    /\ heap = << <<>> >>
    /\ custom_patterns = <<>>
    /\ current_line_words = 1
    /\ current_line_bbox = <<0, 0, 0, 0>>
    /\ finalized = <<>>
    /\ raw_text = <<>>
    /\ scores = Unset
    /\ doc_type = None
    /\ type_confidence = Unset
    /\ extracted_fields = <<>>
    /\ img = Unset
    /\ lines = <<>>
    /\ result = Unset
    /\ json = Unset
    /\ calls = <<>>

\* lines 288-290
HeapSkipBlank(w) ==
    /\ pc = "loop"
    /\ Len(data) < MaxWords
    /\ Strip(w.text) = ""
    /\ data' = Append(data, w)
    /\ UNCHANGED <<envVars, heap, extracted_fields, json, pc, layout, current_line_y,
                   current_line_text, current_line_words, current_line_bbox, finalized,
                   classVars, tableVars, result>>

\* lines 306-319: "current_line_words.append(...)" changes the list in place
HeapAppendWord(h, ref, y, text, bbox, w) ==
    /\ heap' = [h EXCEPT ![ref] = Append(@, WordOf(w))]
    /\ current_line_words' = ref
    /\ current_line_y' = w.top
    /\ current_line_text' = Append(text, w.text)
    /\ current_line_bbox' = UpdateBBox(bbox, w.left, w.top, w.width, w.height)
    /\ data' = Append(data, w)

\* lines 288-319 without a break
HeapAddWord(w) ==
    /\ pc = "loop"
    /\ Len(data) < MaxWords
    /\ Strip(w.text) # ""
    /\ ~IsNewLine(Locals, w)
    /\ HeapAppendWord(heap, current_line_words, current_line_y, current_line_text,
                      current_line_bbox, w)
    /\ UNCHANGED <<envVars, extracted_fields, json, pc, layout, finalized, classVars,
                   tableVars, result>>

HeapBreakLine_ClearsList(w) ==
    /\ pc = "loop"
    /\ Len(data) < MaxWords
    /\ Strip(w.text) # ""
    /\ IsNewLine(Locals, w)
    /\ layout' = FinalizeTextLineAt(layout, heap, current_line_text, current_line_words,
                                    current_line_bbox)
    /\ finalized' = Append(finalized, TextLineAt(heap, current_line_text,
                                                 current_line_words, current_line_bbox))
    /\ HeapAppendWord([heap EXCEPT ![current_line_words] = <<>>], current_line_words,
                      w.top, <<>>, current_line_bbox, w)
    /\ UNCHANGED <<envVars, extracted_fields, json, pc, classVars, tableVars, result>>

\* lines 299-319 with a break: the line is finalized with the list the accumulator
\* holds, then "current_line_words = []" binds the name to a new list
HeapBreakLine(w) ==
    /\ pc = "loop"
    /\ Len(data) < MaxWords
    /\ Strip(w.text) # ""
    /\ IsNewLine(Locals, w)
    /\ layout' = FinalizeTextLineAt(layout, heap, current_line_text, current_line_words,
                                    current_line_bbox)
    /\ finalized' = Append(finalized, TextLineAt(heap, current_line_text,
                                                 current_line_words, current_line_bbox))
    /\ HeapAppendWord(Append(heap, <<>>), Len(heap) + 1, w.top, <<>>, current_line_bbox, w)
    /\ UNCHANGED <<envVars, extracted_fields, json, pc, classVars, tableVars, result>>

\* lines 321-330
HeapEnd ==
    /\ pc = "loop"
    /\ IF current_line_text # <<>>
       THEN /\ layout' = FinalizeTextLineAt(layout, heap, current_line_text,
                                            current_line_words, current_line_bbox)
            /\ finalized' = Append(finalized, TextLineAt(heap, current_line_text,
                                                         current_line_words, current_line_bbox))
       ELSE UNCHANGED <<layout, finalized>>
    /\ pc' = "returned"
    /\ UNCHANGED <<envVars, heap, extracted_fields, json, data, current_line_y,
                   current_line_text, current_line_words, current_line_bbox, classVars,
                   tableVars, result>>

NextHeap ==
    \/ \E w \in OcrWords : HeapSkipBlank(w)
    \/ \E w \in OcrWords : HeapAddWord(w)
    \/ \E w \in OcrWords : HeapBreakLine(w)
    \/ HeapEnd

SpecHeap == InitHeap /\ [][NextHeap]_vars

\* what a reader of the line sees: the line with the content of its list
LineSeen(h, line) == [line EXCEPT !.words = h[line.words]]

LinesSeen(h, ls) == [ k \in 1..Len(ls) |-> LineSeen(h, ls[k]) ]

LayoutSeen(h, lay) ==
    [lay EXCEPT !.header = LinesSeen(h, @), !.body = LinesSeen(h, @),
                !.footer = LinesSeen(h, @)]

\* C22: a TextLine is never mutated after it is finalized: while the loop runs no
\* finalized line shares its word list with the accumulator, every step leaves the
\* text, words, confidence and bounding box of every line already in the layout as
\* they were, and the lines read at any moment are the lines as they were finalized.
C22_FinalizedLineNeverMutated ==
    /\ [](pc = "loop" =>
            \A k \in 1..Len(finalized) : finalized[k].words # current_line_words)
    /\ [](LET st == IF pc = "loop" THEN FoldLoop(LoopInit(SizedLayout), data)
                    ELSE RunLoop(LoopInit(SizedLayout), data)
          IN  /\ LinesSeen(heap, finalized) = st.lines
              /\ LayoutSeen(heap, layout) = st.layout)
    /\ [][/\ \A k \in 1..Len(finalized) :
                LineSeen(heap', finalized'[k]) = LineSeen(heap, finalized[k])
          /\ \A sec \in {"header", "body", "footer"} : \A k \in 1..Len(layout[sec]) :
                LineSeen(heap', layout'[sec][k]) = LineSeen(heap, layout[sec][k])]_vars

C22_Witness ==
    /\ pc = "loop"
    /\ Len(finalized) = 1
    /\ Len(heap[finalized[1].words]) = 1
    /\ Len(heap[current_line_words]) = 2

-----------------------------------------------------------------------------
(* Further classification claims *)

\* C23: every document type but UNKNOWN has a catalog entry of exactly 5 patterns, UNKNOWN
\* has none, every score is a multiple of 1/5, and one matching pattern of the winning
\* type reaches the threshold (the type is returned, not UNKNOWN).
C23_FivePatternsPerType ==
    Classified =>
        /\ { DocTypePatterns[k].type : k \in 1..Len(DocTypePatterns) }
              = DocumentType \ {"unknown"}
        /\ \A k \in 1..Len(DocTypePatterns) : Len(DocTypePatterns[k].patterns) = 5
        /\ \A k \in DOMAIN scores : (5 * scores[k][1]) % scores[k][2] = 0
        /\ type_confidence[1] > 0 => doc_type # "unknown"

\* the catalog order of the types
CatalogOrder == <<"invoice", "receipt", "contract", "form", "letter", "report">>

\* C24: when several types share the maximal score and it is >= 0.2, classify returns the
\* one that comes first in the catalog order invoice, receipt, contract, form, letter,
\* report; the type and confidence returned are a function of the text.
C24_TieGoesToFirstInCatalogOrder ==
    /\ [ k \in 1..Len(DocTypePatterns) |-> DocTypePatterns[k].type ] = CatalogOrder
    /\ (Classified /\ doc_type # "unknown") =>
          LET tied == { k \in DOMAIN scores :
                          \A j \in DOMAIN scores : QLeq(scores[j], scores[k]) }
          IN  /\ doc_type = CatalogOrder[SetMin(tied)]
              /\ \A k \in tied : QEq(scores[k], type_confidence)
    /\ Classified =>
          \A k \in DOMAIN scores :
              scores[k] = <<Cardinality(MatchSet(k, raw_text)), Len(DocTypePatterns[k].patterns)>>

C24_Witness ==
    /\ pc = "classified"
    /\ raw_text = <<"total", "from">>
    /\ scores[1] = <<1, 5>>
    /\ scores[2] = <<1, 5>>
    /\ doc_type = "invoice"

-----------------------------------------------------------------------------
(* Further field claims *)

\* the spellings of a word that differ in letter case only
CaseForms(tok) ==
    CASE tok \in {"invoice", "INVOICE"} -> {"invoice", "INVOICE"}
      [] tok \in {"inv-1", "INV-1"} -> {"inv-1", "INV-1"}
      [] OTHER -> {tok}

\* the texts that differ from t in letter case only
CaseVariants(t) ==
    { u \in [1..Len(t) -> UNION { CaseForms(t[k]) : k \in 1..Len(t) }] :
        \A k \in 1..Len(t) : u[k] \in CaseForms(t[k]) }

\* C25: fields are matched against the lowercased text: every extracted value equals its
\* own lowercase form, and texts that differ only in letter case give the same field map.
C25_ValuesLowercaseCaseInsensitive ==
    FieldsExtracted =>
        /\ \A f \in DOMAIN extracted_fields :
              extracted_fields[f].value
                 = [ n \in 1..Len(extracted_fields[f].value) |->
                       LowerAtom(extracted_fields[f].value[n]) ]
        /\ \A u \in CaseVariants(raw_text) : ExtractKeyFields(u) = extracted_fields

C25_Witness ==
    /\ pc = "tables"
    /\ raw_text = <<"invoice", "INV-1">>
    /\ extracted_fields["invoice_number"].value = <<"inv", "-", "1">>
    /\ <<"INVOICE", "inv-1">> \in CaseVariants(raw_text)

-----------------------------------------------------------------------------
(* Further claims on process_document *)

\* layout extraction has ended by an exception while a line was open and after a line
\* had been finalized: the open line was not flushed
FailedAfterALine ==
    /\ pc \notin {"start", "loop"}
    /\ finalized # <<>>
    /\ current_line_text # <<>>
    /\ finalized[Len(finalized)].words # current_line_words

\* C26: a failed stage gives its empty default: when layout extraction fails after the
\* image was opened and lines were finalized, the layout handed on has no lines and page
\* width and height 0, and raw_text is empty.
C26_FailedLayoutIsEmptyDefault ==
    FailedAfterALine =>
        /\ layout.header = <<>> /\ layout.body = <<>> /\ layout.footer = <<>>
        /\ layout.page_width = 0 /\ layout.page_height = 0
        /\ raw_text = <<>>

-----------------------------------------------------------------------------
(* Field extraction with a catalog a caller has changed: engine.field_patterns is a
   plain dict attribute, "engine.field_patterns[name] = pattern" replaces an entry *)

\* a pattern re.compile rejects, such as "("
RBad == [k |-> "bad"]

\* self.field_patterns as _extract_key_fields reads it
FieldPatternsNow ==
    [ f \in FieldNames |->
        IF f \in DOMAIN custom_patterns THEN custom_patterns[f] ELSE FieldPatterns[f] ]

\* re.search(pattern, ...) raises re.error
Malformed(re) == re.k = "bad"

\* the state after line 240 for a given raw text, one entry of the catalog replaced or none
InitCustom ==
    /\ vision_available = TRUE
    /\ custom_patterns \in {[ f \in {} |-> RBad ]}
                           \cup { [ f \in {g} |-> RBad ] : g \in {"email", "date"} }
                           \cup { [ f \in {"email"} |-> RLit(<<"x">>) ] }
    /\ file = [opens |-> TRUE, reads |-> FALSE]
    /\ pc = "classified"
    /\ layout = DocumentLayout
    /\ data = <<>>
    /\ current_line_y = -1
    /\ current_line_text = <<>>
    /\ current_line_words = <<>>
    /\ current_line_bbox = <<0, 0, 0, 0>>
    /\ finalized = <<>>
    /\ raw_text \in FieldTexts
    /\ scores = Scores(Lower(raw_text))
    /\ doc_type = ClassifyDocumentType(raw_text)[1]
    /\ type_confidence = ClassifyDocumentType(raw_text)[2]
    /\ extracted_fields = <<>>
    /\ img = Unset
    /\ lines = <<>>
    /\ result = Unset
    /\ json = Unset
    /\ heap = <<>>
    /\ calls = <<>>

\* lines 380-381 with a malformed entry: re.search raises re.error inside the for loop;
\* neither _extract_key_fields nor process_document (line 243) has a handler
ExtractFieldsRaises ==
    /\ pc = "classified"
    /\ \E f \in FieldNames : Malformed(FieldPatternsNow[f])
    /\ pc' = "raised"
    /\ UNCHANGED <<envVars, heap, extracted_fields, json, layout, loopVars, classVars,
                   tableVars, result>>

\* line 243 with every entry well-formed
ExtractFieldsCustom ==
    /\ pc = "classified"
    /\ \A f \in FieldNames : ~Malformed(FieldPatternsNow[f])
    /\ extracted_fields' =
          LET text_lower == Chars(Lower(raw_text))
              matched == { f \in FieldNames :
                             ReSearch(FieldPatternsNow[f], text_lower).start # 0 }
          IN  [ f \in matched |->
                  ExtractedField(f, StripText(MatchValue(FieldPatternsNow[f], text_lower)),
                                 <<85, 100>>, "regex") ]
    /\ pc' = "tables"
    /\ UNCHANGED <<envVars, heap, json, layout, loopVars, classVars, tableVars, result>>

NextCustom ==
    \/ ExtractFieldsRaises
    \/ ExtractFieldsCustom
    \/ DetectTablesNoImage
    \/ AssembleResult

SpecCustom == InitCustom /\ [][NextCustom]_vars

\* C27: a malformed pattern in the field catalog fails closed: nothing is raised, the
\* field of the malformed pattern is omitted and every other field is extracted as usual.
C27_MalformedPatternFailsClosed ==
    /\ pc # "raised"
    /\ FieldsExtracted =>
          \A f \in FieldNames :
              f \in DOMAIN extracted_fields <=>
                  /\ ~Malformed(FieldPatternsNow[f])
                  /\ \E i \in 1..(Len(Chars(Lower(raw_text))) + 1) :
                        Match(FieldPatternsNow[f], Chars(Lower(raw_text)), i, <<0, 0>>) # <<>>

\* the lines of a text: the runs of tokens between its newlines (no line for no token)
RECURSIVE SplitLines(_, _)
SplitLines(t, cur) ==
    IF t = <<>> THEN (IF cur = <<>> THEN <<>> ELSE <<cur>>)
    ELSE IF Head(t) = NL THEN <<cur>> \o SplitLines(Tail(t), <<>>)
    ELSE SplitLines(Tail(t), Append(cur, Head(t)))

\* the positions of process_document after raw_text is assigned
HasRawText == pc \in {"classify", "classified", "tables", "detected", "done", "serialized"}

\* C28: raw_text is the newline-join of the texts of the header lines, then the body
\* lines, then the footer lines, each section in finalization order and every finalized
\* line once; classification and field extraction ran on that text (their outputs, as
\* they return, are those of raw_text) and the result carries the text and the outputs.
C28_RawTextIsSectionOrderJoin ==
    HasRawText =>
        LET all == layout.header \o layout.body \o layout.footer
            InSection(sec) == LET In(l) == l \in SeqRange(layout[sec])
                              IN  SelectSeq(finalized, In)
        IN  /\ SplitLines(raw_text, <<>>) = [ k \in 1..Len(all) |-> all[k].text ]
            /\ Len(all) = Len(finalized)
            /\ \A sec \in {"header", "body", "footer"} : layout[sec] = InSection(sec)
            /\ pc = "classified" =>
                  /\ scores = Scores(Lower(raw_text))
                  /\ <<doc_type, type_confidence>> = ClassifyDocumentType(raw_text)
            /\ pc = "tables" => extracted_fields = ExtractKeyFields(raw_text)
            /\ pc \in {"done", "serialized"} =>
                  /\ result.raw_text = raw_text
                  /\ result.doc_type = doc_type
                  /\ result.type_confidence = type_confidence
                  /\ result.extracted_fields = extracted_fields

C28_Witness ==
    /\ pc = "done"
    /\ Len(finalized) = 2
    /\ finalized[1].text = <<"invoice">>
    /\ finalized[2].text = <<"to">>
    /\ result.raw_text = <<"to", NL, "invoice">>

-----------------------------------------------------------------------------
(* Further table claims *)

\* the segments that are neither horizontal nor vertical
Diagonals(ls) ==
    { k \in 1..Len(ls) : Abs(ls[k][2] - ls[k][4]) >= 5 /\ Abs(ls[k][1] - ls[k][3]) >= 5 }

\* ls without its diagonal segments
RECURSIVE Straight(_)
Straight(ls) ==
    IF ls = <<>> THEN <<>>
    ELSE IF Abs(Head(ls)[2] - Head(ls)[4]) >= 5 /\ Abs(Head(ls)[1] - Head(ls)[3]) >= 5
         THEN Straight(Tail(ls))
         ELSE <<Head(ls)>> \o Straight(Tail(ls))

\* C29: every detected segment is in at most one of the horizontal and vertical counts:
\* horizontal iff its vertical delta is < 5, vertical iff its horizontal delta is < 5;
\* a segment that is neither is discarded: the tables are those of the list without it.
C29_SegmentInAtMostOneCount ==
    (pc \in {"detected", "done"} /\ lines # <<>>) =>
        /\ \A k \in 1..Len(lines) :
              ~(Abs(lines[k][2] - lines[k][4]) < 5 /\ Abs(lines[k][1] - lines[k][3]) < 5)
        /\ HCount(lines) + VCount(lines) + Cardinality(Diagonals(lines)) = Len(lines)
        /\ Len(layout.tables) = IF HCount(lines) > 2 /\ VCount(lines) > 2 THEN 1 ELSE 0
        /\ \A k \in 1..Len(layout.tables) :
              /\ layout.tables[k].rows + 1 = HCount(lines)
              /\ layout.tables[k].cols + 1 = VCount(lines)
        /\ layout = DetectTablesIn([layout EXCEPT !.tables = <<>>], img, Straight(lines))

C29_Witness ==
    /\ pc = "detected"
    /\ Len(lines) = 6
    /\ HCount(lines) = 2
    /\ VCount(lines) = 3
    /\ lines[3] = <<0, 10, 60, 15>>
    /\ layout.tables = <<>>

\* s is the beginning of t
IsPrefix(s, t) == Len(s) <= Len(t) /\ SubSeq(t, 1, Len(s)) = s

\* C30: the stages leave each other's outputs alone: classification changes neither the
\* layout, the raw text nor the fields; field extraction changes neither the layout, the
\* raw text nor the type and its confidence; table detection only appends to
\* layout.tables and leaves the lines, the page size, the raw text, the type, its
\* confidence and the fields as they were.
C30_StagesLeaveOtherOutputsAlone ==
    [][/\ pc = "classify" =>
            /\ layout' = layout
            /\ raw_text' = raw_text
            /\ extracted_fields' = extracted_fields
       /\ pc = "classified" =>
            /\ layout' = layout
            /\ raw_text' = raw_text
            /\ doc_type' = doc_type
            /\ type_confidence' = type_confidence
       /\ pc = "tables" =>
            /\ IsPrefix(layout.tables, layout'.tables)
            /\ [layout' EXCEPT !.tables = layout.tables] = layout
            /\ raw_text' = raw_text
            /\ doc_type' = doc_type
            /\ type_confidence' = type_confidence
            /\ extracted_fields' = extracted_fields]_vars

C30_Witness ==
    /\ pc = "detected"
    /\ Len(layout.tables) = 1
    /\ Len(layout.header) = 2
    /\ raw_text = <<"invoice", NL, "to">>
    /\ doc_type = "invoice"
    /\ DOMAIN extracted_fields # {}

=============================================================================
